---- MODULE Spec2Model ----
(***************************************************************************)
(* Model of the rule core of the repository: RuleValidator                 *)
(* (src/src/core/validator.py), JSONLogicBuilder                           *)
(* (src/src/core/jsonlogic_builder.py), the vector stores                  *)
(* (src/src/core/vector_store.py), KeyMapper (src/src/core/mapper.py),     *)
(* the startup of the application (src/src/main.py), the request           *)
(* handler generate_rule (src/src/api/routes.py), PhraseExtractor          *)
(* (src/src/core/mapper.py) and RAGSystem (src/src/core/rag.py).           *)
(***************************************************************************)
EXTENDS Integers, Sequences, FiniteSets, TLC

VARIABLES
    phase,        \* which operation ran last: "build" (input under construction) or "done"
    rule,         \* the Python value handed to validate_complete
    wraps,        \* how many {"and": [rule]} wrappings the depth test applied
    config,       \* RuleValidator.config
    allowed_keys, \* RuleValidator.allowed_keys / JSONLogicBuilder.allowed_keys
    max_depth,    \* RuleValidator.max_depth / JSONLogicBuilder.max_depth
    max_size,     \* RuleValidator.max_size
    outcome,      \* what the last validate_complete call returned or raised
    stack,        \* the trees a caller of JSONLogicBuilder holds, oldest first
    lastCall,     \* the last JSONLogicBuilder call: its arguments and its result
    grammar,      \* what the last JSONLogicBuilder.validate call returned or raised
    store_type,   \* the store_type create_vector_store was called with
    mem,          \* InMemoryVectorStore: embeddings, texts, ids
    fa,           \* FAISSVectorStore: index, texts, ids, dimension
    lastSearch,   \* the last search call on both stores: its arguments and results
    lastAdd,      \* the last add_texts call: whether it raised, the row length of its array
    disk,         \* the files save wrote under the path
    reloaded,     \* the fresh store of the same kind that load filled
    lastProbe,    \* the last comparison of two stores by one search on each
    mapper,       \* KeyMapper: store_keys, similarity_threshold, top_k
    rag_system,   \* RAGSystem: top_k, similarity_threshold
    lastMap,      \* the last KeyMapper.map_phrases call: its phrases and results
    request,      \* the last generate_rule request: the calls it made, its response
    chunking,     \* the last _chunk_policy_docs call: content, chunk_size, chunks
    extraction,   \* the last extract_phrases call: its text and what the passes found
    handlers,     \* the request handlers searching the store: where each one is
    serialized    \* the last validate_complete call on the text of a serialized rule

vars == <<phase, rule, wraps, config, allowed_keys, max_depth, max_size, outcome,
          stack, lastCall, grammar, store_type, mem, fa, lastSearch,
          lastAdd, disk, reloaded, lastProbe, mapper, rag_system, lastMap, request,
          chunking, extraction, handlers, serialized>>

\* what the calls on the vector stores record
storeCalls == <<lastAdd, disk, reloaded, lastProbe>>

\* the application around the vector store
application == <<mapper, rag_system, lastMap, request>>

\* what the calls on texts record, and the handlers of concurrent requests
textCalls == <<chunking, extraction, handlers, serialized>>

(***************************************************************************)
(* Python values. Every value is a record of one shape, so that values of  *)
(* different Python types can be compared:                                 *)
(*   t    - the Python type: "dict", "list", "str", "int", "bool", "none", *)
(*          or "set" (a value json.dumps cannot serialize); "text" is a    *)
(*          str whose text is held as a sequence of characters             *)
(*   s    - the text of a str                                              *)
(*   n    - the value of an int, 1/0 for a bool                            *)
(*   kids - the items of a list, or the (k, val) items of a dict in        *)
(*          insertion order                                                *)
(***************************************************************************)
PyNone == [t |-> "none", s |-> "", n |-> 0, kids |-> <<>>]

PyBool(b) == [t |-> "bool", s |-> "", n |-> IF b THEN 1 ELSE 0, kids |-> <<>>]

PyInt(i) == [t |-> "int", s |-> "", n |-> i, kids |-> <<>>]

PyStr(x) == [t |-> "str", s |-> x, n |-> 0, kids |-> <<>>]

PySet == [t |-> "set", s |-> "", n |-> 0, kids |-> <<>>]

PyList(items) ==
    [t |-> "list", s |-> "", n |-> 0,
     kids |-> [i \in 1..Len(items) |-> [k |-> "", val |-> items[i]]]]

\* pairs: a sequence of <<key, value>> with distinct keys
PyDict(pairs) ==
    [t |-> "dict", s |-> "", n |-> 0,
     kids |-> [i \in 1..Len(pairs) |-> [k |-> pairs[i][1], val |-> pairs[i][2]]]]

Var(key) == PyDict(<<<<"var", PyStr(key)>>>>)

Keys(node) == {node.kids[i].k : i \in 1..Len(node.kids)}

\* "key in node" for a dict
HasKey(node, key) == node.t = "dict" /\ key \in Keys(node)

\* node.get(key) for a dict that has the key
Get(node, key) ==
    node.kids[CHOOSE i \in 1..Len(node.kids) : node.kids[i].k = key].val

\* the items of a list value; a value that is no list stands alone
ItemsOf(value) ==
    IF value.t = "list"
    THEN [i \in 1..Len(value.kids) |-> value.kids[i].val]
    ELSE <<value>>

\* hash(value) raises TypeError for these
Unhashable(value) == value.t \in {"list", "dict", "set"}

\* bool(value)
Truthy(value) ==
    CASE value.t = "none" -> FALSE
      [] value.t = "bool" -> value.n = 1
      [] value.t = "int" -> value.n # 0
      [] value.t = "str" -> value.s # ""
      [] value.t \in {"list", "dict"} -> Len(value.kids) > 0
      [] OTHER -> TRUE

Digit(d) == <<"0", "1", "2", "3", "4", "5", "6", "7", "8", "9">>[d + 1]

RECURSIVE Decimal(_)
\* str(i) for i >= 0
Decimal(i) == IF i < 10 THEN Digit(i) ELSE Decimal(i \div 10) \o Digit(i % 10)

\* f"{value}" for a hashable value
Format(value) ==
    CASE value.t = "str" -> value.s
      [] value.t = "int" -> IF value.n < 0 THEN "-" \o Decimal(-value.n) ELSE Decimal(value.n)
      [] value.t = "bool" -> IF value.n = 1 THEN "True" ELSE "False"
      [] OTHER -> "None"

(***************************************************************************)
(* json.dumps / json.loads as validator.py uses them                       *)
(***************************************************************************)
\* a Python str held character by character
PyText(chars) == [t |-> "text", s |-> chars, n |-> 0, kids |-> <<>>]

\* the characters of the keys and names that get serialized
Spell(name) ==
    CASE name = "and" -> <<"a", "n", "d">>
      [] name = ">" -> <<">">>
      [] name = "var" -> <<"v", "a", "r">>
      [] name = "unknown_op" -> <<"u", "n", "k", "n", "o", "w", "n", "_", "o", "p">>
      [] name = "user_age" -> <<"u", "s", "e", "r", "_", "a", "g", "e">>
      [] name = "is_premium_member" ->
            <<"i", "s", "_", "p", "r", "e", "m", "i", "u", "m", "_",
              "m", "e", "m", "b", "e", "r">>

RECURSIVE DecimalChars(_)
\* the characters of str(i) for i >= 0
DecimalChars(i) ==
    IF i < 10 THEN <<Digit(i)>> ELSE DecimalChars(i \div 10) \o <<Digit(i % 10)>>

RECURSIVE Escape(_)
\* the body of a JSON string: quotes and backslashes escaped
Escape(chars) ==
    IF Len(chars) = 0 THEN <<>>
    ELSE (IF Head(chars) \in {"\"", "\\"} THEN <<"\\", Head(chars)>> ELSE <<Head(chars)>>)
         \o Escape(Tail(chars))

\* json.dumps of a str
Quote(chars) == <<"\"">> \o Escape(chars) \o <<"\"">>

RECURSIVE CommaJoin(_, _)
\* ", ".join(parts[i:])
CommaJoin(parts, i) ==
    IF i > Len(parts) THEN <<>>
    ELSE IF i = Len(parts) THEN parts[i]
    ELSE parts[i] \o <<",", " ">> \o CommaJoin(parts, i + 1)

RECURSIVE json_dumps(_)
\* json.dumps(value) with the default separators, character by character
json_dumps(value) ==
    CASE value.t = "dict" ->
            <<"{">> \o CommaJoin([i \in 1..Len(value.kids) |->
                                     Quote(Spell(value.kids[i].k)) \o <<":", " ">>
                                     \o json_dumps(value.kids[i].val)], 1) \o <<"}">>
      [] value.t = "list" ->
            <<"[">> \o CommaJoin([i \in 1..Len(value.kids) |->
                                     json_dumps(value.kids[i].val)], 1) \o <<"]">>
      [] value.t = "str" -> Quote(Spell(value.s))
      [] value.t = "text" -> Quote(value.s)
      [] value.t = "int" ->
            IF value.n < 0 THEN <<"-">> \o DecimalChars(-value.n) ELSE DecimalChars(value.n)
      [] value.t = "bool" -> IF value.n = 1 THEN <<"t", "r", "u", "e">>
                             ELSE <<"f", "a", "l", "s", "e">>
      [] OTHER -> <<"n", "u", "l", "l">>

\* the character at position i, "" past the end
At(chars, i) == IF i >= 1 /\ i <= Len(chars) THEN chars[i] ELSE ""

JsonWhitespace == {" ", "\t", "\n", "\r"}

DigitCharacters == {"0", "1", "2", "3", "4", "5", "6", "7", "8", "9"}

RECURSIVE SkipWhitespace(_, _)
\* the first position from i on that holds no whitespace
SkipWhitespace(chars, i) ==
    IF At(chars, i) \in JsonWhitespace THEN SkipWhitespace(chars, i + 1) ELSE i

RECURSIVE SkipDigits(_, _)
SkipDigits(chars, i) ==
    IF At(chars, i) \in DigitCharacters THEN SkipDigits(chars, i + 1) ELSE i

\* whether the characters from position i on begin with word
StartsWith(chars, i, word) ==
    /\ i + Len(word) - 1 <= Len(chars)
    /\ SubSeq(chars, i, i + Len(word) - 1) = word

RECURSIVE ParseStringBody(_, _)
\* the JSON decoder inside a string: the position after the closing quote,
\* 0 when the string does not end or has a bad escape
ParseStringBody(chars, i) ==
    IF i > Len(chars) THEN 0
    ELSE IF chars[i] = "\"" THEN i + 1
    ELSE IF chars[i] = "\\"
    THEN IF At(chars, i + 1) \in {"\"", "\\", "/", "b", "f", "n", "r", "t"}
         THEN ParseStringBody(chars, i + 2) ELSE 0
    ELSE IF chars[i] \in {"\t", "\n", "\r"} THEN 0
    ELSE ParseStringBody(chars, i + 1)

\* the JSON decoder on a string that starts at position i
ParseString(chars, i) ==
    IF At(chars, i) = "\"" THEN ParseStringBody(chars, i + 1) ELSE 0

\* the JSON decoder on an integer that starts at position i (the texts of
\* the model hold no fraction and no exponent)
ParseNumber(chars, i) ==
    LET j == IF At(chars, i) = "-" THEN i + 1 ELSE i
    IN IF At(chars, j) \notin DigitCharacters THEN 0
       ELSE IF chars[j] = "0" THEN j + 1
       ELSE SkipDigits(chars, j + 1)

RECURSIVE ParseValue(_, _), ParseMembers(_, _), ParseElements(_, _)
\* the JSON decoder on a value that starts at or after position i: the
\* position after the value, 0 when there is no value
ParseValue(chars, i) ==
    LET j == SkipWhitespace(chars, i)
        first == At(chars, j)
    IN CASE first = "{" ->
              IF At(chars, SkipWhitespace(chars, j + 1)) = "}"
              THEN SkipWhitespace(chars, j + 1) + 1
              ELSE ParseMembers(chars, SkipWhitespace(chars, j + 1))
         [] first = "[" ->
              IF At(chars, SkipWhitespace(chars, j + 1)) = "]"
              THEN SkipWhitespace(chars, j + 1) + 1
              ELSE ParseElements(chars, j + 1)
         [] first = "\"" -> ParseString(chars, j)
         [] first = "-" \/ first \in DigitCharacters -> ParseNumber(chars, j)
         [] StartsWith(chars, j, <<"t", "r", "u", "e">>) -> j + 4
         [] StartsWith(chars, j, <<"f", "a", "l", "s", "e">>) -> j + 5
         [] StartsWith(chars, j, <<"n", "u", "l", "l">>) -> j + 4
         [] OTHER -> 0

\* the members of an object from the key at position i to the closing brace
ParseMembers(chars, i) ==
    LET key_end == ParseString(chars, i)
        colon == SkipWhitespace(chars, key_end)
        value_end == ParseValue(chars, colon + 1)
        next == SkipWhitespace(chars, value_end)
    IN IF key_end = 0 \/ At(chars, colon) # ":" \/ value_end = 0 THEN 0
       ELSE IF At(chars, next) = "," THEN ParseMembers(chars, SkipWhitespace(chars, next + 1))
       ELSE IF At(chars, next) = "}" THEN next + 1
       ELSE 0

\* the elements of an array from position i to the closing bracket
ParseElements(chars, i) ==
    LET value_end == ParseValue(chars, i)
        next == SkipWhitespace(chars, value_end)
    IN IF value_end = 0 THEN 0
       ELSE IF At(chars, next) = "," THEN ParseElements(chars, next + 1)
       ELSE IF At(chars, next) = "]" THEN next + 1
       ELSE 0

\* json.loads(text) returns (no JSONDecodeError): one value and nothing but
\* whitespace after it
json_loads(chars) ==
    LET value_end == ParseValue(chars, 1)
    IN value_end # 0 /\ SkipWhitespace(chars, value_end) = Len(chars) + 1

RECURSIVE Serializable(_)
\* json.dumps(value) returns (no TypeError): no value of an unsupported type
Serializable(value) ==
    /\ value.t # "set"
    /\ \A i \in 1..Len(value.kids) : Serializable(value.kids[i].val)

RECURSIVE SumLen(_, _)
SumLen(f, n) == IF n = 0 THEN 0 ELSE f[n] + SumLen(f, n - 1)

RECURSIVE DumpsLen(_)
\* len(json.dumps(value)) with the default separators ", " and ": "
\* (the strings of the model need no escaping)
DumpsLen(value) ==
    LET n == Len(value.kids)
        part == [i \in 1..n |->
                    IF value.t = "dict"
                    THEN Len(value.kids[i].k) + 4 + DumpsLen(value.kids[i].val)
                    ELSE DumpsLen(value.kids[i].val)]
    IN CASE value.t = "str" -> Len(value.s) + 2
         [] value.t = "text" -> Len(Quote(value.s))
         [] value.t = "int" -> Len(Format(value))
         [] value.t = "bool" -> IF value.n = 1 THEN 4 ELSE 5
         [] value.t = "none" -> 4
         [] OTHER -> 2 + SumLen(part, n) + (IF n > 1 THEN 2 * (n - 1) ELSE 0)

\* json.loads(text) returns (no JSONDecodeError): of the texts the model
\* uses, the ones that are JSON documents
JsonLoadsOk(text) == text \in {"18", "true", "null", "[]"}

(***************************************************************************)
(* RuleValidator                                                           *)
(***************************************************************************)
DEFAULT_MAX_DEPTH == 10

DEFAULT_MAX_SIZE == 5000

\* a config dict: has_* says whether the key is present
NoConfig == [has_max_depth |-> FALSE, max_depth |-> 0, has_max_size |-> FALSE, max_size |-> 0]

\* RuleValidator.__init__: self.config.get("max_depth", 10)
ConfigMaxDepth(cfg) == IF cfg.has_max_depth THEN cfg.max_depth ELSE DEFAULT_MAX_DEPTH

\* RuleValidator.__init__: self.config.get("max_size", 5000)
ConfigMaxSize(cfg) == IF cfg.has_max_size THEN cfg.max_size ELSE DEFAULT_MAX_SIZE

LOGICAL_KEYS == {"and", "or", "if"}

COMPARISON_KEYS == {">", ">=", "<", "<=", "==", "!=", "in", "+", "-", "*", "/"}

\* allowed_operators with the key "in" left out
AllowedOperatorsWithoutIn == (LOGICAL_KEYS \cup COMPARISON_KEYS) \ {"in"}

\* allowed_operators of _validate_operators
allowed_operators ==
    {"and", "or", "if", ">", ">=", "<", "<=", "==", "!=", "in", "+", "-", "*", "/"}

Violation(kind, name) == [kind |-> kind, name |-> name]

\* _validate_json_syntax: TRUE when it returns (True, None)
_validate_json_syntax(r) ==
    IF r.t = "str" THEN JsonLoadsOk(r.s)
    ELSE IF r.t = "text" THEN json_loads(r.s)
    ELSE Serializable(r)

\* _validate_size: TRUE when it returns (True, None)
_validate_size(r, maxSize) == ~(DumpsLen(r) > maxSize)

RECURSIVE DepthCheckOffByOne(_, _, _)
\* _validate_depth with "current_depth >= self.max_depth" for ">"
DepthCheckOffByOne(r, current_depth, maxDepth) ==
    IF current_depth >= maxDepth THEN FALSE
    ELSE IF r.t = "dict"
    THEN \A i \in 1..Len(r.kids) :
            r.kids[i].k \in allowed_operators =>
                \A j \in 1..Len(ItemsOf(r.kids[i].val)) :
                    DepthCheckOffByOne(ItemsOf(r.kids[i].val)[j], current_depth + 1, maxDepth)
    ELSE TRUE

RECURSIVE DepthCheckEveryKey(_, _, _)
\* _validate_depth descending into the value of every key
DepthCheckEveryKey(r, current_depth, maxDepth) ==
    IF current_depth > maxDepth THEN FALSE
    ELSE IF r.t = "dict"
    THEN \A i \in 1..Len(r.kids) :
            \A j \in 1..Len(ItemsOf(r.kids[i].val)) :
                DepthCheckEveryKey(ItemsOf(r.kids[i].val)[j], current_depth + 1, maxDepth)
    ELSE TRUE

RECURSIVE _validate_depth(_, _, _)
\* _validate_depth: TRUE when it returns (True, None). Every failure returns
\* the same message, so the first failure found in iteration order and any
\* failure give the same result.
_validate_depth(r, current_depth, maxDepth) ==
    IF current_depth > maxDepth THEN FALSE
    ELSE IF r.t = "dict"
    THEN \A i \in 1..Len(r.kids) :
            LET key == r.kids[i].k
                value == r.kids[i].val
            IN IF key \in LOGICAL_KEYS
               THEN \A j \in 1..Len(ItemsOf(value)) :
                        _validate_depth(ItemsOf(value)[j], current_depth + 1, maxDepth)
               ELSE IF key \in COMPARISON_KEYS /\ value.t = "list"
               THEN \A j \in 1..Len(value.kids) :
                        _validate_depth(value.kids[j].val, current_depth + 1, maxDepth)
               ELSE TRUE
    ELSE TRUE

\* result of a walk: the errors appended so far, or an exception raised
Walked(errors) == [raised |-> FALSE, errors |-> errors]

Raised == [raised |-> TRUE, errors |-> <<>>]

Then(a, b) == IF a.raised \/ b.raised THEN Raised ELSE Walked(a.errors \o b.errors)

RECURSIVE check_vars(_, _), check_vars_each(_, _, _)
\* check_vars of _validate_variables: "var_name not in self.allowed_keys"
\* hashes var_name, which raises TypeError for a list or a dict
check_vars(node, allowed) ==
    IF node.t = "dict"
    THEN IF HasKey(node, "var")
         THEN LET var_name == Get(node, "var")
              IN IF Unhashable(var_name) THEN Raised
                 ELSE IF ~(var_name.t = "str" /\ var_name.s \in allowed)
                 THEN Walked(<<Violation("Variable", Format(var_name))>>)
                 ELSE Walked(<<>>)
         ELSE check_vars_each([i \in 1..Len(node.kids) |-> node.kids[i].val], 1, allowed)
    ELSE IF node.t = "list"
    THEN check_vars_each(ItemsOf(node), 1, allowed)
    ELSE Walked(<<>>)

\* the loop over values[i..]: a list value is walked item by item
check_vars_each(values, i, allowed) ==
    IF i > Len(values) THEN Walked(<<>>)
    ELSE LET here == IF values[i].t = "list"
                     THEN check_vars_each(ItemsOf(values[i]), 1, allowed)
                     ELSE check_vars(values[i], allowed)
         IN IF here.raised THEN Raised
            ELSE Then(here, check_vars_each(values, i + 1, allowed))

\* _validate_variables: the errors list, or the exception
_validate_variables(r, allowed) == check_vars(r, allowed)

RECURSIVE check_operators(_), check_operators_items(_, _), check_operators_each(_, _)
\* check_operators of _validate_operators: the errors it appends, in order
check_operators(node) ==
    IF node.t = "dict" THEN check_operators_items(node.kids, 1)
    ELSE IF node.t = "list" THEN check_operators_each(ItemsOf(node), 1)
    ELSE <<>>

\* the loop over the items of a dict
check_operators_items(kids, i) ==
    IF i > Len(kids) THEN <<>>
    ELSE LET key == kids[i].k
             value == kids[i].val
             here == IF key = "var" THEN <<>>
                     ELSE (IF key \notin allowed_operators
                           THEN <<Violation("Operator", key)>> ELSE <<>>)
                          \o (IF value.t = "list"
                              THEN check_operators_each(ItemsOf(value), 1)
                              ELSE check_operators(value))
         IN here \o check_operators_items(kids, i + 1)

\* the loop over the items of a list
check_operators_each(values, i) ==
    IF i > Len(values) THEN <<>>
    ELSE check_operators(values[i]) \o check_operators_each(values, i + 1)

_validate_operators(r) == check_operators(r)

\* what a call returns: (ok, errors), or the exception that left it
Returned(errors) == [raised |-> FALSE, ok |-> Len(errors) = 0, errors |-> errors]

Threw == [raised |-> TRUE, ok |-> FALSE, errors |-> <<>>]

NoCall == [raised |-> FALSE, ok |-> FALSE, errors |-> <<Violation("none", "")>>]

\* RuleValidator.validate_complete
validate_complete(r, allowed, maxDepth, maxSize) ==
    IF ~_validate_json_syntax(r)
    THEN Returned(<<Violation("Syntax", "")>>)
    ELSE LET size_errors == IF _validate_size(r, maxSize) THEN <<>>
                            ELSE <<Violation("Size", "")>>
             depth_errors == IF _validate_depth(r, 0, maxDepth) THEN <<>>
                             ELSE <<Violation("Depth", "")>>
             var_result == _validate_variables(r, allowed)
         IN IF var_result.raised THEN Threw
            ELSE Returned(size_errors \o depth_errors \o var_result.errors
                          \o _validate_operators(r))

(***************************************************************************)
(* Values the other components hold while one component is exercised       *)
(***************************************************************************)
NoBuilderCall == [fn |-> "none", args |-> <<>>, key |-> "", operator |-> "",
                  raised |-> FALSE, result |-> PyNone]

\* InMemoryVectorStore.__init__
EmptyMem == [embeddings |-> <<>>, texts |-> <<>>, ids |-> <<>>]

\* FAISSVectorStore.__init__(dimension)
NewFaiss(dimension) == [index |-> <<>>, texts |-> <<>>, ids |-> <<>>, dimension |-> dimension]

EmptyFaiss == NewFaiss(0)

NoSearch == [called |-> FALSE, embedding |-> <<>>, top_k |-> 0, results |-> <<>>]

\* no add_texts call made yet
NoAdd == [called |-> FALSE, raised |-> FALSE, rows |-> 0]

\* nothing saved under the path
NoFiles == [saved |-> FALSE, vectors |-> <<>>, metadata |-> <<>>]

\* no store loaded from the path
NotLoaded == [loaded |-> FALSE, vectors |-> <<>>, texts |-> <<>>, ids |-> <<>>]

\* no two stores compared yet
NoProbe == [called |-> FALSE, embedding |-> <<>>, top_k |-> 0,
            first |-> [raised |-> FALSE, results |-> <<>>],
            second |-> [raised |-> FALSE, results |-> <<>>]]

\* no KeyMapper and no RAGSystem constructed
NoMapper == [constructed |-> FALSE, store_keys |-> <<>>,
             similarity_threshold |-> <<0, 1>>, top_k |-> 0]

NoRagSystem == [constructed |-> FALSE, top_k |-> 0, similarity_threshold |-> <<0, 1>>]

\* map_phrases not called yet
NoMap == [called |-> FALSE, phrases |-> <<>>, searches |-> <<>>,
          mappings |-> <<>>, errors |-> <<>>]

\* no request handled yet
NoRequest == [called |-> FALSE, rag_enabled |-> FALSE, calls |-> <<>>, status_code |-> 0,
              detail |-> [message |-> "", errors |-> <<>>, more |-> FALSE],
              mappings |-> <<>>, mapping_errors |-> <<>>, rag_context |-> <<>>,
              json_logic |-> PyNone,
              validation |-> [raised |-> FALSE, ok |-> FALSE, errors |-> <<>>]]

\* _chunk_policy_docs not called yet
NoChunking == [called |-> FALSE, content |-> <<>>, chunk_size |-> 0, chunks |-> <<>>]

\* extract_phrases not called yet
NoExtraction == [called |-> FALSE, text |-> <<>>, capitalized |-> <<>>]

\* no request handler searching
NoHandlers == <<>>

\* no validate_complete call on a serialized rule yet
NoSerialized == [called |-> FALSE, text |-> <<>>,
                 outcome |-> [raised |-> FALSE, ok |-> FALSE, errors |-> <<>>]]

\* the state of everything around the validator, the builder and one store
Idle ==
    /\ chunking = NoChunking
    /\ extraction = NoExtraction
    /\ handlers = NoHandlers
    /\ serialized = NoSerialized
    /\ lastAdd = NoAdd
    /\ disk = NoFiles
    /\ reloaded = NotLoaded
    /\ lastProbe = NoProbe
    /\ mapper = NoMapper
    /\ rag_system = NoRagSystem
    /\ lastMap = NoMap
    /\ request = NoRequest

(***************************************************************************)
(* SpecValidator: a caller builds a Python value step by step and hands it *)
(* to validate_complete of a RuleValidator.                                *)
(***************************************************************************)
\* how many times a value is wrapped into a new dict
MaxWraps == 2

\* how many items a dict gets
MaxItems == 2

Vocabulary == {"user_age", "is_premium_member"}

\* the configs a RuleValidator is constructed with
Configs ==
    { [has_max_depth |-> TRUE, max_depth |-> 1, has_max_size |-> TRUE, max_size |-> 40],
      [has_max_depth |-> TRUE, max_depth |-> 2, has_max_size |-> FALSE, max_size |-> 0] }

\* the values a tree starts from
Leaves ==
    { Var("user_age"), Var("unknown_var"), PyInt(18), PyStr("zz"), PyStr("18"), PySet }

\* the keys a caller puts a value under
WrapKeys == {"and", ">", "unknown_op", "var"}

\* the (key, value) items a caller adds to a dict
AddedItems ==
    { <<"var", PyStr("user_age")>>,
      <<"unknown_op", PyList(<<Var("unknown_var")>>)>>,
      <<"and", PyList(<<Var("unknown_var")>>)>> }

InitValidator ==
    /\ phase = "build"
    /\ rule \in Leaves
    /\ wraps = 0
    /\ config \in Configs
    /\ allowed_keys = Vocabulary
    /\ max_depth = ConfigMaxDepth(config)
    /\ max_size = ConfigMaxSize(config)
    /\ outcome = NoCall
    /\ stack = <<>>
    /\ lastCall = NoBuilderCall
    /\ grammar = NoCall
    /\ store_type = "in-memory"
    /\ mem = EmptyMem
    /\ fa = EmptyFaiss
    /\ lastSearch = NoSearch
    /\ Idle

\* rule = {key: [rule]}
WrapList(key) ==
    /\ phase = "build"
    /\ wraps < MaxWraps
    /\ rule' = PyDict(<<<<key, PyList(<<rule>>)>>>>)
    /\ wraps' = wraps + 1
    /\ UNCHANGED <<phase, config, allowed_keys, max_depth, max_size, outcome,
                   stack, lastCall, grammar, store_type, mem, fa, lastSearch,
                   storeCalls, application, textCalls>>

\* rule = {key: [rule, 18]}
WrapPair(key) ==
    /\ phase = "build"
    /\ wraps < MaxWraps
    /\ rule' = PyDict(<<<<key, PyList(<<rule, PyInt(18)>>)>>>>)
    /\ wraps' = wraps + 1
    /\ UNCHANGED <<phase, config, allowed_keys, max_depth, max_size, outcome,
                   stack, lastCall, grammar, store_type, mem, fa, lastSearch,
                   storeCalls, application, textCalls>>

\* rule = {key: rule}
WrapValue(key) ==
    /\ phase = "build"
    /\ wraps < MaxWraps
    /\ rule' = PyDict(<<<<key, rule>>>>)
    /\ wraps' = wraps + 1
    /\ UNCHANGED <<phase, config, allowed_keys, max_depth, max_size, outcome,
                   stack, lastCall, grammar, store_type, mem, fa, lastSearch,
                   storeCalls, application, textCalls>>

\* rule[key] = value, for a key the dict does not have yet
AddItem(key, value) ==
    /\ phase = "build"
    /\ rule.t = "dict"
    /\ Len(rule.kids) < MaxItems
    /\ key \notin Keys(rule)
    /\ rule' = [rule EXCEPT !.kids = Append(@, [k |-> key, val |-> value])]
    /\ UNCHANGED <<phase, wraps, config, allowed_keys, max_depth, max_size, outcome,
                   stack, lastCall, grammar, store_type, mem, fa, lastSearch,
                   storeCalls, application, textCalls>>

\* validator.validate_complete(rule)
ValidateComplete ==
    /\ phase = "build"
    /\ outcome' = validate_complete(rule, allowed_keys, max_depth, max_size)
    /\ phase' = "done"
    /\ UNCHANGED <<rule, wraps, config, allowed_keys, max_depth, max_size,
                   stack, lastCall, grammar, store_type, mem, fa, lastSearch,
                   storeCalls, application, textCalls>>

NextValidator ==
    \/ \E key \in WrapKeys : WrapList(key)
    \/ \E key \in WrapKeys : WrapPair(key)
    \/ \E key \in WrapKeys : WrapValue(key)
    \/ \E item \in AddedItems : AddItem(item[1], item[2])
    \/ ValidateComplete

SpecValidator == InitValidator /\ [][NextValidator]_vars

(***************************************************************************)
(* What a tree contains, independently of how the validator walks it       *)
(***************************************************************************)
RECURSIVE AllNodes(_), AllNodesFrom(_, _)
\* every value of a tree, the tree itself first, in document order
AllNodes(value) == <<value>> \o AllNodesFrom(value.kids, 1)

AllNodesFrom(kids, i) ==
    IF i > Len(kids) THEN <<>>
    ELSE AllNodes(kids[i].val) \o AllNodesFrom(kids, i + 1)

RECURSIVE CountOf(_, _)
\* how many members of a sequence of booleans are TRUE
CountOf(flags, n) == IF n = 0 THEN 0 ELSE (IF flags[n] THEN 1 ELSE 0) + CountOf(flags, n - 1)

\* a var node whose key is not in the vocabulary
IsBadVar(node, allowed) ==
    /\ HasKey(node, "var")
    /\ ~(Get(node, "var").t = "str" /\ Get(node, "var").s \in allowed)

\* the var nodes of a tree whose key is not in the vocabulary
BadVarCount(tree, allowed) ==
    LET nodes == AllNodes(tree)
    IN CountOf([i \in 1..Len(nodes) |-> IsBadVar(nodes[i], allowed)], Len(nodes))

\* the occurrences in a tree of the object key `key`
KeyCount(tree, key) ==
    LET nodes == AllNodes(tree)
        hits == [i \in 1..Len(nodes) |-> IF HasKey(nodes[i], key) THEN 1 ELSE 0]
    IN SumLen(hits, Len(nodes))

\* the object keys of a tree
AllKeys(tree) ==
    LET nodes == AllNodes(tree)
    IN UNION {IF nodes[i].t = "dict" THEN Keys(nodes[i]) ELSE {} : i \in 1..Len(nodes)}

\* the operator set of the rule grammar
GrammarOperators ==
    {"and", "or", "if", ">", ">=", "<", "<=", "==", "!=", "in", "+", "-", "*", "/"}

\* the object keys of a tree that are neither var nor an allowed operator
BadKeys(tree) == AllKeys(tree) \ (GrammarOperators \cup {"var"})

RECURSIVE Nesting(_)
\* how deep a tree nests through recognized operator keys
Nesting(value) ==
    IF value.t # "dict" THEN 0
    ELSE LET below == UNION {
                 IF value.kids[i].k \in LOGICAL_KEYS
                    \/ (value.kids[i].k \in COMPARISON_KEYS /\ value.kids[i].val.t = "list")
                 THEN {1 + Nesting(ItemsOf(value.kids[i].val)[j]) :
                          j \in 1..Len(ItemsOf(value.kids[i].val))}
                 ELSE {} : i \in 1..Len(value.kids)}
         IN IF below = {} THEN 0 ELSE CHOOSE m \in below : \A x \in below : x <= m

\* the violations of one kind a call returned
OfKind(errors, kind) == SelectSeq(errors, LAMBDA e : e.kind = kind)

\* the violations of one kind naming `name`
Naming(errors, kind, name) == SelectSeq(errors, LAMBDA e : e.kind = kind /\ e.name = name)

\* a JSON-serializable tree: not a text to be parsed
IsTree(value) == value.t # "str" /\ Serializable(value)

(***************************************************************************)
(* Claims about validate_complete, under SpecValidator                     *)
(***************************************************************************)
\* C1: for every JSON-serializable tree validate_complete returns the
\* violations of all four checks together (a Size violation when the tree
\* is oversized, a Depth violation when it nests too deep, a Variable
\* violation when it uses an out-of-vocabulary variable, an Operator
\* violation when it uses a disallowed operator), and a value that fails the
\* syntax check gets the Syntax violation alone.
C1_AllChecksAggregated ==
    phase = "done" =>
        /\ ~outcome.raised
        /\ ~_validate_json_syntax(rule) => outcome.errors = <<Violation("Syntax", "")>>
        /\ IsTree(rule) =>
            /\ DumpsLen(rule) > max_size => Len(OfKind(outcome.errors, "Size")) > 0
            /\ Nesting(rule) > max_depth => Len(OfKind(outcome.errors, "Depth")) > 0
            /\ BadVarCount(rule, allowed_keys) > 0
                  => Len(OfKind(outcome.errors, "Variable")) > 0
            /\ BadKeys(rule) # {} => Len(OfKind(outcome.errors, "Operator")) > 0

\* C2: validate_complete never raises: every call returns an
\* (ok, violations) pair, also for a var node whose value is a list or a dict.
C2_NeverRaises == phase = "done" => ~outcome.raised

\* C3: for every serializable tree validate_complete reports exactly one
\* Operator violation per occurrence of a key other than var outside the
\* allowed operator set, each naming that key, at every nesting level; a
\* tree whose only defect is one unknown key gets ok = false and that one
\* violation.
C3_OneOperatorViolationPerKey ==
    phase = "done" /\ IsTree(rule) =>
        /\ ~outcome.raised
        /\ \A key \in AllKeys(rule) :
              Len(Naming(outcome.errors, "Operator", key))
                 = IF key \in BadKeys(rule) THEN KeyCount(rule, key) ELSE 0
        /\ (/\ Cardinality(BadKeys(rule)) = 1
            /\ \A key \in BadKeys(rule) : KeyCount(rule, key) = 1
            /\ BadVarCount(rule, allowed_keys) = 0
            /\ DumpsLen(rule) <= max_size
            /\ Nesting(rule) <= max_depth)
           => /\ ~outcome.ok
              /\ \E key \in BadKeys(rule) : outcome.errors = <<Violation("Operator", key)>>

\* C4: whenever validate_complete returns for a tree, it reports one
\* Variable violation per var node whose key is not in the vocabulary, at any
\* nesting position, and none when every var key is in the vocabulary.
C4_OneVariableViolationPerVarNode ==
    phase = "done" /\ IsTree(rule) /\ ~outcome.raised =>
        Len(OfKind(outcome.errors, "Variable")) = BadVarCount(rule, allowed_keys)

(***************************************************************************)
(* SpecDepth: the depth test of tests/test_jsonlogic.py, a var node        *)
(* wrapped again and again into {"and": [rule]}, for a validator built     *)
(* with and without a max_depth in its config.                             *)
(***************************************************************************)
\* how many times the var node is wrapped
MaxChain == 12

DepthConfigs ==
    { NoConfig }
    \cup { [has_max_depth |-> TRUE, max_depth |-> d, has_max_size |-> FALSE, max_size |-> 0] :
              d \in 1..3 }

InitDepth ==
    /\ phase = "build"
    /\ rule \in {Var(key) : key \in Vocabulary}
    /\ wraps = 0
    /\ config \in DepthConfigs
    /\ allowed_keys = Vocabulary
    /\ max_depth = ConfigMaxDepth(config)
    /\ max_size = ConfigMaxSize(config)
    /\ outcome = NoCall
    /\ stack = <<>>
    /\ lastCall = NoBuilderCall
    /\ grammar = NoCall
    /\ store_type = "in-memory"
    /\ mem = EmptyMem
    /\ fa = EmptyFaiss
    /\ lastSearch = NoSearch
    /\ Idle

\* rule = {"and": [rule]}
WrapAnd ==
    /\ phase = "build"
    /\ wraps < MaxChain
    /\ rule' = PyDict(<<<<"and", PyList(<<rule>>)>>>>)
    /\ wraps' = wraps + 1
    /\ UNCHANGED <<phase, config, allowed_keys, max_depth, max_size, outcome,
                   stack, lastCall, grammar, store_type, mem, fa, lastSearch,
                   storeCalls, application, textCalls>>

NextDepth == WrapAnd \/ ValidateComplete

SpecDepth == InitDepth /\ [][NextDepth]_vars

\* C5: with maximum depth D a var node under exactly D nested "and" nodes
\* passes validate_complete, under D + 1 (or more) it fails with a Depth
\* violation, and a validator built without a max_depth has D = 10.
C5_DepthBoundary ==
    phase = "done" =>
        /\ ~config.has_max_depth => max_depth = 10
        /\ config.has_max_depth => max_depth = config.max_depth
        /\ wraps <= max_depth => outcome = Returned(<<>>)
        /\ wraps > max_depth => outcome = Returned(<<Violation("Depth", "")>>)

\* C5 witness: the default validator rejects the var node under 11 "and"s
\* and has accepted it under 10
C5_Witness ==
    /\ phase = "done"
    /\ ~config.has_max_depth
    /\ wraps = 11
    /\ Nesting(rule) = 11
    /\ outcome = Returned(<<Violation("Depth", "")>>)
    /\ validate_complete(Get(rule, "and").kids[1].val, allowed_keys, max_depth, max_size).ok

(***************************************************************************)
(* JSONLogicBuilder                                                        *)
(***************************************************************************)
\* JSONLogicBuilder.ALLOWED_OPERATORS
ALLOWED_OPERATORS ==
    {"and", "or", "if", ">", ">=", "<", "<=", "==", "!=", "in", "+", "-", "*", "/"}

\* JSONLogicBuilder.__init__: max_depth: int = 10
BUILDER_MAX_DEPTH == 10

\* what a builder call returns, or the ValueError it raises
Built(result) == [raised |-> FALSE, result |-> result]

BuildError == [raised |-> TRUE, result |-> PyNone]

\* build_condition that also rejects a key outside allowed_keys
BuildConditionCheckingKey(key, operator, value, allowed) ==
    IF operator \notin ALLOWED_OPERATORS \/ key \notin allowed THEN BuildError
    ELSE Built(PyDict(<<<<operator, PyList(<<Var(key), value>>)>>>>))

\* JSONLogicBuilder.build_condition
build_condition(key, operator, value, allowed) ==
    IF operator \notin ALLOWED_OPERATORS THEN BuildError
    ELSE Built(PyDict(<<<<operator, PyList(<<Var(key), value>>)>>>>))

\* build_and without the single-condition return
BuildAndAlwaysWrapping(conditions) ==
    IF Len(conditions) = 0 THEN BuildError
    ELSE Built(PyDict(<<<<"and", PyList(conditions)>>>>))

\* JSONLogicBuilder.build_and
build_and(conditions) ==
    IF Len(conditions) = 0 THEN BuildError
    ELSE IF Len(conditions) = 1 THEN Built(conditions[1])
    ELSE Built(PyDict(<<<<"and", PyList(conditions)>>>>))

\* JSONLogicBuilder.build_or
build_or(conditions) ==
    IF Len(conditions) = 0 THEN BuildError
    ELSE IF Len(conditions) = 1 THEN Built(conditions[1])
    ELSE Built(PyDict(<<<<"or", PyList(conditions)>>>>))

\* JSONLogicBuilder.build_if; else_rule is PyNone when the caller gives none
build_if(condition, then_rule, else_rule) ==
    IF Truthy(else_rule)
    THEN Built(PyDict(<<<<"if", PyList(<<condition, then_rule, else_rule>>)>>>>))
    ELSE Built(PyDict(<<<<"if", PyList(<<condition, then_rule>>)>>>>))

\* JSONLogicBuilder.build_in
build_in(value, array) == Built(PyDict(<<<<"in", PyList(<<value, array>>)>>>>))

RECURSIVE validate_walk(_, _, _, _), validate_operands(_, _, _, _, _)
\* JSONLogicBuilder.validate: the errors list it returns, or the TypeError
\* of "var_name not in self.allowed_keys" for an unhashable var_name
validate_walk(r, depth, allowed, maxDepth) ==
    IF depth > maxDepth THEN Walked(<<Violation("Depth", "")>>)
    ELSE IF r.t = "dict"
    THEN IF HasKey(r, "var")
         THEN LET var_name == Get(r, "var")
              IN IF Unhashable(var_name) THEN Raised
                 ELSE IF ~(var_name.t = "str" /\ var_name.s \in allowed)
                 THEN Walked(<<Violation("Variable", Format(var_name))>>)
                 ELSE Walked(<<>>)
         ELSE IF Len(r.kids) # 1
         THEN Walked(<<Violation("Shape", "")>>)
         ELSE LET operator == r.kids[1].k
                  operands == r.kids[1].val
              IN IF operator \notin ALLOWED_OPERATORS
                 THEN Walked(<<Violation("Operator", operator)>>)
                 ELSE IF operands.t \notin {"list", "dict"}
                 THEN Walked(<<Violation("Operands", operator)>>)
                 ELSE validate_operands(ItemsOf(operands), 1, depth + 1, allowed, maxDepth)
    ELSE IF r.t \notin {"int", "str", "bool", "none"}
    THEN Walked(<<Violation("Type", r.t)>>)
    ELSE Walked(<<>>)

\* the loop "for operand in operands: errors.extend(...)"
validate_operands(operands, i, depth, allowed, maxDepth) ==
    IF i > Len(operands) THEN Walked(<<>>)
    ELSE LET here == validate_walk(operands[i], depth, allowed, maxDepth)
         IN IF here.raised THEN Raised
            ELSE Then(here, validate_operands(operands, i + 1, depth, allowed, maxDepth))

\* JSONLogicBuilder.validate(rule)
validate(r, allowed, maxDepth) ==
    LET walk == validate_walk(r, 0, allowed, maxDepth)
    IN IF walk.raised THEN Threw ELSE Returned(walk.errors)

(***************************************************************************)
(* SpecBuilder: a caller composes trees with a JSONLogicBuilder, keeping   *)
(* the trees built so far in a list, and hands the last one to             *)
(* RuleValidator.validate_complete and JSONLogicBuilder.validate, both     *)
(* over the same vocabulary. Each held tree carries the keys that were     *)
(* passed to the builder calls that made it.                               *)
(***************************************************************************)
\* how many values the held trees have together
MaxNodes == 20

BuilderKeys == {"user_age", "unknown_var"}

BuilderOperators == {">", "unknown_op"}

\* what a caller passes as else_rule besides a built tree (None: no else)
ElseLiterals == {PyNone, PyInt(0), PyInt(1), PyDict(<<>>)}

Held(tree, keys) == [tree |-> tree, keys |-> keys]

RECURSIVE TotalNodes(_)
TotalNodes(held) ==
    IF Len(held) = 0 THEN 0
    ELSE Len(AllNodes(Head(held).tree)) + TotalNodes(Tail(held))

RECURSIVE KeysOf(_)
KeysOf(held) == IF Len(held) = 0 THEN {} ELSE Head(held).keys \cup KeysOf(Tail(held))

\* the last n held trees, and what is held before them
TopN(n) == SubSeq(stack, Len(stack) - n + 1, Len(stack))

Below(n) == SubSeq(stack, 1, Len(stack) - n)

Trees(held) == [i \in 1..Len(held) |-> held[i].tree]

\* a call that consumed the last n held trees: its result replaces them,
\* and nothing changes when it raised
Called(fn, args, key, operator, n, keys, r) ==
    /\ lastCall' = [fn |-> fn, args |-> args, key |-> key, operator |-> operator,
                    raised |-> r.raised, result |-> r.result]
    /\ stack' = IF r.raised THEN stack
                ELSE Append(Below(n), Held(r.result, keys \cup KeysOf(TopN(n))))
    /\ TotalNodes(stack') <= MaxNodes
    /\ UNCHANGED <<phase, rule, wraps, config, allowed_keys, max_depth, max_size,
                   outcome, grammar, store_type, mem, fa, lastSearch,
                   storeCalls, application, textCalls>>

InitBuilder ==
    /\ phase = "build"
    /\ rule = PyNone
    /\ wraps = 0
    /\ config = NoConfig
    /\ allowed_keys = Vocabulary
    /\ max_depth = BUILDER_MAX_DEPTH
    /\ max_size = ConfigMaxSize(config)
    /\ outcome = NoCall
    /\ stack = <<>>
    /\ lastCall = NoBuilderCall
    /\ grammar = NoCall
    /\ store_type = "in-memory"
    /\ mem = EmptyMem
    /\ fa = EmptyFaiss
    /\ lastSearch = NoSearch
    /\ Idle

\* builder.build_condition(key, operator, value)
BuildCondition(key, operator, value) ==
    /\ phase = "build"
    /\ Called("build_condition", <<value>>, key, operator, 0, {key},
              build_condition(key, operator, value, allowed_keys))

\* builder.build_and(conditions) with the last n held trees
BuildAnd(n) ==
    /\ phase = "build"
    /\ Called("build_and", Trees(TopN(n)), "", "", n, {}, build_and(Trees(TopN(n))))

\* builder.build_or(conditions) with the last n held trees
BuildOr(n) ==
    /\ phase = "build"
    /\ Called("build_or", Trees(TopN(n)), "", "", n, {}, build_or(Trees(TopN(n))))

\* builder.build_if(condition, then_rule) or with a literal else_rule
BuildIf(else_rule) ==
    /\ phase = "build"
    /\ Len(stack) >= 2
    /\ Called("build_if", Trees(TopN(2)) \o <<else_rule>>, "", "", 2, {},
              build_if(TopN(2)[1].tree, TopN(2)[2].tree, else_rule))

\* builder.build_if(condition, then_rule, else_rule) with three held trees
BuildIfElse ==
    /\ phase = "build"
    /\ Len(stack) >= 3
    /\ Called("build_if", Trees(TopN(3)), "", "", 3, {},
              build_if(TopN(3)[1].tree, TopN(3)[2].tree, TopN(3)[3].tree))

\* builder.build_in({"var": key}, [18, 21])
BuildIn(key) ==
    /\ phase = "build"
    /\ Called("build_in", <<Var(key), PyList(<<PyInt(18), PyInt(21)>>)>>, key, "", 0, {key},
              build_in(Var(key), PyList(<<PyInt(18), PyInt(21)>>)))

\* validator.validate_complete(tree) and builder.validate(tree) for the
\* tree built last
ValidateBuilt ==
    /\ phase = "build"
    /\ Len(stack) > 0
    /\ rule' = stack[Len(stack)].tree
    /\ outcome' = validate_complete(rule', allowed_keys, ConfigMaxDepth(config), max_size)
    /\ grammar' = validate(rule', allowed_keys, max_depth)
    /\ phase' = "done"
    /\ UNCHANGED <<wraps, config, allowed_keys, max_depth, max_size,
                   stack, lastCall, store_type, mem, fa, lastSearch,
                   storeCalls, application, textCalls>>

NextBuilder ==
    \/ \E key \in BuilderKeys, operator \in BuilderOperators :
          BuildCondition(key, operator, PyInt(18))
    \/ \E n \in 0..Len(stack) : BuildAnd(n)
    \/ \E n \in 0..Len(stack) : BuildOr(n)
    \/ \E else_rule \in ElseLiterals : BuildIf(else_rule)
    \/ BuildIfElse
    \/ BuildIn("user_age")
    \/ ValidateBuilt

SpecBuilder == InitBuilder /\ [][NextBuilder]_vars

\* the tree built last and the keys its builder calls were given
Last == stack[Len(stack)]

(***************************************************************************)
(* Claims about JSONLogicBuilder, under SpecBuilder                        *)
(***************************************************************************)
\* C6: a tree composed by build_condition, build_and, build_or, build_if
\* and build_in from keys of the vocabulary only gets no Variable and no
\* Operator violation from validate_complete over the same vocabulary.
C6_BuiltTreesPassVariableAndOperatorChecks ==
    phase = "done" /\ Last.keys \subseteq allowed_keys =>
        /\ ~outcome.raised
        /\ OfKind(outcome.errors, "Variable") = <<>>
        /\ OfKind(outcome.errors, "Operator") = <<>>

\* C6 witness: a validated tree that nests an operator node inside an "if"
\* or "and"/"or" node, was built with build_in and from vocabulary keys only
C6_Witness ==
    /\ phase = "done"
    /\ Last.keys \subseteq allowed_keys
    /\ Nesting(rule) >= 2
    /\ KeyCount(rule, "in") >= 1
    /\ KeyCount(rule, "if") + KeyCount(rule, "and") + KeyCount(rule, "or") >= 1
    /\ outcome = Returned(<<>>)

\* C7: every tree built from vocabulary keys, allowed operators and
\* literal values, nested no deeper than max_depth, is grammar-valid: the
\* builder's validate returns valid with an empty error list.
C7_BuiltTreesAreGrammarValid ==
    phase = "done" /\ Last.keys \subseteq allowed_keys /\ Nesting(rule) <= max_depth =>
        grammar = Returned(<<>>)

\* C8: build_and and build_or raise when given no condition, return the
\* single condition itself when given one, and return {"and": conditions}
\* or {"or": conditions}, in the given order, when given two or more.
C8_AndOrArity ==
    lastCall.fn \in {"build_and", "build_or"} =>
        LET conditions == lastCall.args
            tag == IF lastCall.fn = "build_and" THEN "and" ELSE "or"
        IN /\ Len(conditions) = 0 => lastCall.raised
           /\ Len(conditions) = 1 => ~lastCall.raised /\ lastCall.result = conditions[1]
           /\ Len(conditions) >= 2 =>
                /\ ~lastCall.raised
                /\ lastCall.result.t = "dict"
                /\ Len(lastCall.result.kids) = 1
                /\ lastCall.result.kids[1].k = tag
                /\ lastCall.result.kids[1].val.t = "list"
                /\ ItemsOf(lastCall.result.kids[1].val) = conditions
           /\ ~lastCall.raised => stack # <<>> /\ Last.tree = lastCall.result

\* C8 witness: build_and returned its single condition, a comparison node
C8_Witness ==
    /\ lastCall.fn = "build_and"
    /\ Len(lastCall.args) = 1
    /\ ~lastCall.raised
    /\ Keys(lastCall.result) = {">"}
    /\ Last.tree = lastCall.args[1]

\* C9: build_condition raises exactly when the operator is outside the
\* allowed set; otherwise it returns {operator: [{"var": key}, value]},
\* also for a key that is not in the builder's vocabulary.
C9_BuildCondition ==
    lastCall.fn = "build_condition" =>
        /\ lastCall.raised <=> lastCall.operator \notin GrammarOperators
        /\ ~lastCall.raised =>
            /\ lastCall.result.t = "dict"
            /\ Len(lastCall.result.kids) = 1
            /\ lastCall.result.kids[1].k = lastCall.operator
            /\ lastCall.result.kids[1].val.t = "list"
            /\ ItemsOf(lastCall.result.kids[1].val)
                  = <<PyDict(<<<<"var", PyStr(lastCall.key)>>>>), lastCall.args[1]>>

\* C9 witness: build_condition returned a node for a key outside the vocabulary
C9_Witness ==
    /\ lastCall.fn = "build_condition"
    /\ lastCall.key \notin allowed_keys
    /\ ~lastCall.raised
    /\ Keys(lastCall.result) = {lastCall.operator}

(***************************************************************************)
(* Vector stores. A vector is a sequence of integers. A similarity is kept *)
(* exactly, as the number sgn * sqrt(num / den) with den > 0.              *)
(***************************************************************************)
Score(sgn, num, den) == [sgn |-> sgn, num |-> num, den |-> den]

\* a >= b for two similarities
ScoreGeq(a, b) == a.sgn * a.num * b.den >= b.sgn * b.num * a.den

RECURSIVE Dot(_, _)
Dot(u, v) == IF Len(u) = 0 THEN 0 ELSE Head(u) * Head(v) + Dot(Tail(u), Tail(v))

Sign(x) == IF x > 0 THEN 1 ELSE IF x < 0 THEN -1 ELSE 0

\* sklearn's cosine_similarity of two vectors: dot / (|u| |v|), and 0 when
\* one of them is the zero vector (normalize leaves a zero row as it is)
cosine_similarity(u, v) ==
    IF Dot(u, u) = 0 \/ Dot(v, v) = 0 THEN Score(0, 0, 1)
    ELSE Score(Sign(Dot(u, v)), Dot(u, v) * Dot(u, v), Dot(u, u) * Dot(v, v))

\* the squared L2 distance IndexFlatL2 reports
L2Distance(u, v) == Dot(u, u) - 2 * Dot(u, v) + Dot(v, v)

\* similarity = 1 / (1 + distance)
HarmonicSimilarity(distance) == Score(1, 1, (1 + distance) * (1 + distance))

\* the orders of 1..n
Orders(n) == {p \in [1..n -> 1..n] : \A i, j \in 1..n : i # j => p[i] # p[j]}

\* np.argsort(similarities): an order of the positions by ascending
\* similarity; the default sort is not stable, equal values come in any order
ArgSorts(similarities) ==
    {p \in Orders(Len(similarities)) :
        \A i, j \in 1..Len(similarities) :
            i < j => ScoreGeq(similarities[p[j]], similarities[p[i]])}

\* index.search: the labels of the nearest vectors by ascending distance,
\* equal distances in any order
NearestOrders(distances) ==
    {p \in Orders(Len(distances)) :
        \A i, j \in 1..Len(distances) : i < j => distances[p[i]] <= distances[p[j]]}

Reverse(seq) == [i \in 1..Len(seq) |-> seq[Len(seq) + 1 - i]]

Min(a, b) == IF a < b THEN a ELSE b

FirstN(seq, n) == SubSeq(seq, 1, Min(n, Len(seq)))

\* a result tuple (id, score, index); index counts from 0
Result(id, score, index) == [id |-> id, score |-> score, index |-> index]

\* range(len(texts)) as the default ids
DefaultIds(n) == [i \in 1..n |-> Decimal(i - 1)]

\* the length of the rows of an embeddings array
RowLength(embeddings) == IF Len(embeddings) = 0 THEN 0 ELSE Len(embeddings[1])

\* InMemoryVectorStore.add_texts stacking rows of any length
InMemoryAddTextsWithoutShapeCheck(store, texts, embeddings, ids) ==
    [raised |-> FALSE,
     store |-> [embeddings |-> store.embeddings \o embeddings,
                texts |-> store.texts \o texts,
                ids |-> store.ids \o ids]]

\* InMemoryVectorStore.add_texts: the store after the call, and whether
\* np.vstack raised (rows of another length)
InMemoryAddTexts(store, texts, embeddings, ids) ==
    IF Len(store.embeddings) # 0 /\ RowLength(store.embeddings) # RowLength(embeddings)
    THEN [raised |-> TRUE, store |-> store]
    ELSE [raised |-> FALSE,
          store |-> [embeddings |-> store.embeddings \o embeddings,
                     texts |-> store.texts \o texts,
                     ids |-> store.ids \o ids]]

\* FAISSVectorStore.add_texts building the index anew from the batch
FaissAddTextsReplacing(store, texts, embeddings, ids) ==
    IF RowLength(embeddings) # store.dimension
    THEN [raised |-> TRUE, store |-> store]
    ELSE [raised |-> FALSE,
          store |-> [store EXCEPT !.index = embeddings, !.texts = texts, !.ids = ids]]

\* FAISSVectorStore.add_texts: the store after the call, and whether
\* index.add raised (rows of another length than the index dimension)
FaissAddTexts(store, texts, embeddings, ids) ==
    IF RowLength(embeddings) # store.dimension
    THEN [raised |-> TRUE, store |-> store]
    ELSE [raised |-> FALSE,
          store |-> [store EXCEPT !.index = @ \o embeddings,
                                  !.texts = @ \o texts,
                                  !.ids = @ \o ids]]

\* InMemoryVectorStore.search without the [::-1] of the ranking
InMemorySearchAscending(store, embedding, top_k, order) ==
    IF Len(store.embeddings) = 0 THEN <<>>
    ELSE LET top_indices == FirstN(order, top_k)
         IN [r \in 1..Len(top_indices) |->
                Result(store.ids[top_indices[r]],
                       cosine_similarity(embedding, store.embeddings[top_indices[r]]),
                       top_indices[r] - 1)]

\* InMemoryVectorStore.search; order is what np.argsort(similarities) returned
InMemorySearch(store, embedding, top_k, order) ==
    IF Len(store.embeddings) = 0 THEN <<>>
    ELSE LET top_indices == FirstN(Reverse(order), top_k)
         IN [r \in 1..Len(top_indices) |->
                Result(store.ids[top_indices[r]],
                       cosine_similarity(embedding, store.embeddings[top_indices[r]]),
                       top_indices[r] - 1)]

\* FAISSVectorStore.search keeping only the labels above 0
FaissSearchDroppingLabelZero(store, embedding, top_k, order) ==
    IF Len(store.index) = 0 THEN <<>>
    ELSE LET indices == FirstN(order, Min(top_k, Len(store.index)))
             kept == SelectSeq(indices, LAMBDA idx : idx - 1 > 0 /\ idx - 1 < Len(store.ids))
         IN [r \in 1..Len(kept) |->
                Result(store.ids[kept[r]],
                       HarmonicSimilarity(L2Distance(embedding, store.index[kept[r]])),
                       kept[r] - 1)]

\* FAISSVectorStore.search; order is the ranking index.search computed, of
\* which it returns the first min(top_k, ntotal) labels
FaissSearch(store, embedding, top_k, order) ==
    IF Len(store.index) = 0 THEN <<>>
    ELSE LET indices == FirstN(order, Min(top_k, Len(store.index)))
             kept == SelectSeq(indices, LAMBDA idx : idx - 1 >= 0 /\ idx - 1 < Len(store.ids))
         IN [r \in 1..Len(kept) |->
                Result(store.ids[kept[r]],
                       HarmonicSimilarity(L2Distance(embedding, store.index[kept[r]])),
                       kept[r] - 1)]

(***************************************************************************)
(* SpecStore: one vector store made by create_vector_store, filled by      *)
(* add_texts calls and then queried by a search call. The search comes     *)
(* after an insertion that returned, or before every insertion.            *)
(***************************************************************************)
\* how many entries the store gets
MaxEntries == 3

\* how many entries one add_texts call brings
MaxBatch == 2

\* the largest top_k of a search
MaxTopK == 3

\* the dimensions a FAISS store is created with
Dimensions == {1, 2}

Queries == { <<1, 0>>, <<1, 1>>, <<0, 0>>, <<1>> }

\* the entries a caller inserts: as KeyMapper does, the text is the id, and
\* the vector is the embedding of the text; the last one comes from an
\* embedding provider of another dimension
Entries ==
    { [id |-> "user_age", text |-> "user_age", vec |-> <<1, 0>>],
      [id |-> "age", text |-> "age", vec |-> <<2, 0>>],
      [id |-> "purchase_amount", text |-> "purchase_amount", vec |-> <<0, 1>>],
      [id |-> "user_status", text |-> "user_status", vec |-> <<1>>] }

\* the batches of one add_texts call: the rows of an array have one length
Batches ==
    {b \in UNION {[1..n -> Entries] : n \in 1..MaxBatch} :
        \A i \in 1..Len(b) : Len(b[i].vec) = Len(b[1].vec)}

InitStore ==
    /\ phase = "build"
    /\ rule = PyNone
    /\ wraps = 0
    /\ config = NoConfig
    /\ allowed_keys = Vocabulary
    /\ max_depth = ConfigMaxDepth(config)
    /\ max_size = ConfigMaxSize(config)
    /\ outcome = NoCall
    /\ stack = <<>>
    /\ lastCall = NoBuilderCall
    /\ grammar = NoCall
    /\ store_type \in {"in-memory", "faiss"}
    /\ mem = EmptyMem
    /\ fa \in {NewFaiss(d) : d \in Dimensions}
    /\ lastSearch = NoSearch
    /\ Idle

\* the vectors, ids and texts the store in use holds
StoredVectors == IF store_type = "faiss" THEN fa.index ELSE mem.embeddings

StoredIds == IF store_type = "faiss" THEN fa.ids ELSE mem.ids

StoredTexts == IF store_type = "faiss" THEN fa.texts ELSE mem.texts

\* the dimension a query vector must have
StoreDimension == IF store_type = "faiss" THEN fa.dimension ELSE RowLength(mem.embeddings)

\* store.add_texts(texts, embeddings, ids), or without ids; an exception of
\* np.vstack or index.add reaches the caller before texts and ids are extended
AddTexts(batch, withIds) ==
    LET texts == [i \in 1..Len(batch) |-> batch[i].text]
        embeddings == [i \in 1..Len(batch) |-> batch[i].vec]
        ids == IF withIds THEN [i \in 1..Len(batch) |-> batch[i].id]
               ELSE DefaultIds(Len(texts))
        added == IF store_type = "faiss" THEN FaissAddTexts(fa, texts, embeddings, ids)
                 ELSE InMemoryAddTexts(mem, texts, embeddings, ids)
    IN /\ phase = "build"
       /\ Len(StoredVectors) + Len(batch) <= MaxEntries
       /\ IF store_type = "faiss"
          THEN /\ fa' = added.store
               /\ mem' = mem
          ELSE /\ mem' = added.store
               /\ fa' = fa
       /\ lastAdd' = [called |-> TRUE, raised |-> added.raised,
                      rows |-> RowLength(embeddings)]
       /\ lastSearch' = NoSearch
       /\ UNCHANGED <<phase, rule, wraps, config, allowed_keys, max_depth, max_size,
                      outcome, stack, lastCall, grammar, store_type,
                      disk, reloaded, lastProbe, application, textCalls>>

\* store.search(embedding, top_k) on the in-memory store
SearchInMemory(embedding, top_k) ==
    /\ phase = "build"
    /\ ~lastAdd.raised
    /\ store_type = "in-memory"
    /\ Len(mem.embeddings) = 0 \/ Len(embedding) = RowLength(mem.embeddings)
    /\ \E order \in ArgSorts([i \in 1..Len(mem.embeddings) |->
                                 cosine_similarity(embedding, mem.embeddings[i])]) :
          lastSearch' = [called |-> TRUE, embedding |-> embedding, top_k |-> top_k,
                         results |-> InMemorySearch(mem, embedding, top_k, order)]
    /\ phase' = "done"
    /\ UNCHANGED <<rule, wraps, config, allowed_keys, max_depth, max_size,
                   outcome, stack, lastCall, grammar, store_type, mem, fa,
                   storeCalls, application, textCalls>>

\* store.search(embedding, top_k) on the FAISS store
SearchFaiss(embedding, top_k) ==
    /\ phase = "build"
    /\ ~lastAdd.raised
    /\ store_type = "faiss"
    /\ Len(fa.index) = 0 \/ Len(embedding) = fa.dimension
    /\ \E order \in NearestOrders([i \in 1..Len(fa.index) |->
                                      L2Distance(embedding, fa.index[i])]) :
          lastSearch' = [called |-> TRUE, embedding |-> embedding, top_k |-> top_k,
                         results |-> FaissSearch(fa, embedding, top_k, order)]
    /\ phase' = "done"
    /\ UNCHANGED <<rule, wraps, config, allowed_keys, max_depth, max_size,
                   outcome, stack, lastCall, grammar, store_type, mem, fa,
                   storeCalls, application, textCalls>>

\* the callers of one store pass ids in every add_texts call or in none:
\* withIds is a choice as long as the store is empty, and after that it is
\* what the ids stored show
PassingIds ==
    IF Len(StoredIds) = 0 THEN BOOLEAN
    ELSE {StoredIds[1] \in {entry.id : entry \in Entries}}

\* every call is made in the phase "build": the guard of the actions, stated
\* here before their arguments are enumerated
NextStore ==
    \/ /\ phase = "build"
       /\ \E batch \in Batches, withIds \in PassingIds : AddTexts(batch, withIds)
    \/ /\ phase = "build"
       /\ \E embedding \in Queries, top_k \in 1..MaxTopK : SearchInMemory(embedding, top_k)
    \/ /\ phase = "build"
       /\ \E embedding \in Queries, top_k \in 1..MaxTopK : SearchFaiss(embedding, top_k)

SpecStore == InitStore /\ [][NextStore]_vars

\* the similarity the store in use gives a stored vector
SimilarityTo(embedding, vec) ==
    IF store_type = "faiss"
    THEN Score(1, 1, (1 + L2Distance(embedding, vec)) * (1 + L2Distance(embedding, vec)))
    ELSE cosine_similarity(embedding, vec)

\* C10: for every index state reachable by insertions and every query of
\* the index's dimension, search(v, k) returns at most k results, ordered by
\* non-increasing similarity, each with the id of the stored entry at the
\* returned position and that entry's similarity to the query.
C10_SearchIsBoundedSortedAndStored ==
    lastSearch.called =>
        LET results == lastSearch.results
        IN /\ Len(results) <= lastSearch.top_k
           /\ \A r \in 1..Len(results) :
                /\ results[r].index \in 0..(Len(StoredVectors) - 1)
                /\ results[r].index + 1 \in 1..Len(StoredIds)
                /\ results[r].id = StoredIds[results[r].index + 1]
                /\ results[r].score
                      = SimilarityTo(lastSearch.embedding,
                                     StoredVectors[results[r].index + 1])
           /\ \A r \in 1..(Len(results) - 1) :
                ScoreGeq(results[r].score, results[r + 1].score)

\* C10 witness: a search with top_k = 2 over three stored entries returned
\* two results of different similarity and left the least similar entry out
C10_Witness ==
    /\ lastSearch.called
    /\ Len(StoredVectors) = 3
    /\ lastSearch.top_k = 2
    /\ Len(lastSearch.results) = 2
    /\ ~ScoreGeq(lastSearch.results[2].score, lastSearch.results[1].score)
    /\ \E i \in 1..3 :
          /\ \A r \in 1..2 : lastSearch.results[r].index # i - 1
          /\ ~ScoreGeq(SimilarityTo(lastSearch.embedding, StoredVectors[i]),
                       lastSearch.results[2].score)

\* the positions (from 0) a search returned
ReturnedIndexes(results) == {results[r].index : r \in 1..Len(results)}

\* C11: search returns an empty sequence when the index holds no entry, and
\* exactly min(k, n) results otherwise; with k >= n every one of the n
\* entries is returned exactly once.
C11_SearchReturnsMinOfKAndN ==
    lastSearch.called =>
        LET results == lastSearch.results
            n == Len(StoredVectors)
        IN /\ Len(results) = Min(lastSearch.top_k, n)
           /\ (n = 0 => results = <<>>)
           /\ (lastSearch.top_k >= n =>
                 \A i \in 0..(n - 1) :
                    Cardinality({r \in 1..Len(results) : results[r].index = i}) = 1)

\* C11 witness: a search with top_k = 3 over two stored entries returned both
C11_Witness ==
    /\ lastSearch.called
    /\ Len(StoredVectors) = 2
    /\ lastSearch.top_k = 3
    /\ ReturnedIndexes(lastSearch.results) = {0, 1}

\* C12: of two returned entries with exactly equal similarity to the query,
\* the one inserted earlier is ranked before the one inserted later.
C12_TiesRankEarlierFirst ==
    lastSearch.called =>
        \A r, q \in 1..Len(lastSearch.results) :
            (/\ r < q
             /\ ScoreGeq(lastSearch.results[r].score, lastSearch.results[q].score)
             /\ ScoreGeq(lastSearch.results[q].score, lastSearch.results[r].score))
                => lastSearch.results[r].index < lastSearch.results[q].index

\* C13: an add_texts call whose vectors have another dimension than the
\* one the vectors already stored have raises, and leaves the stored
\* vectors, ids and texts as they were. (A step that leaves lastSearch not
\* called is an add_texts call; lastAdd'.rows is the row length of its array.)
C13_DimensionMismatchRejected ==
    [][(/\ ~lastSearch'.called
        /\ lastAdd'.called
        /\ Len(StoredVectors) > 0
        /\ lastAdd'.rows # StoreDimension)
           => /\ lastAdd'.raised
              /\ StoredVectors' = StoredVectors
              /\ StoredIds' = StoredIds
              /\ StoredTexts' = StoredTexts]_vars

\* C13 witness: an add_texts call on a store that holds entries raised
C13_Witness ==
    /\ lastAdd.called
    /\ lastAdd.raised
    /\ Len(StoredVectors) > 0
    /\ lastAdd.rows # StoreDimension
    /\ Len(StoredIds) = Len(StoredVectors)

IsPrefix(old, new) ==
    /\ Len(old) <= Len(new)
    /\ SubSeq(new, 1, Len(old)) = old

\* C14: every call leaves the entries stored before it at their positions,
\* and a search with k at least the number of entries returns every entry
\* stored, with its id.
C14_InsertionOnlyAppends ==
    /\ [][/\ IsPrefix(StoredVectors, StoredVectors')
          /\ IsPrefix(StoredIds, StoredIds')
          /\ IsPrefix(StoredTexts, StoredTexts')]_vars
    /\ [](lastSearch.called /\ lastSearch.top_k >= Len(StoredVectors) =>
            \A i \in 1..Len(StoredVectors) :
                \E r \in 1..Len(lastSearch.results) :
                    /\ lastSearch.results[r].index = i - 1
                    /\ lastSearch.results[r].id = StoredIds[i])

\* C14 witness: the same entry was inserted twice, by two calls or by one,
\* and a search with top_k = 2 returned both
C14_Witness ==
    /\ lastSearch.called
    /\ Len(StoredVectors) = 2
    /\ StoredVectors[1] = StoredVectors[2]
    /\ StoredIds[1] = StoredIds[2]
    /\ StoredTexts[1] = StoredTexts[2]
    /\ lastSearch.top_k = 2
    /\ ReturnedIndexes(lastSearch.results) = {0, 1}

(***************************************************************************)
(* save and load. A text is the sequence of its characters; the metadata   *)
(* file is the sequence of the characters written to it.                   *)
(***************************************************************************)
TAB == "\t"

NEWLINE == "\n"

\* the characters str.strip() removes
Whitespace == {" ", TAB, NEWLINE}

RECURSIVE Join(_)
\* the characters of some texts, one after the other
Join(texts) == IF Len(texts) = 0 THEN <<>> ELSE Head(texts) \o Join(Tail(texts))

\* f.write(f"{text_id}\t{text}\n") for zip(self.ids, self.texts)
MetadataOf(ids, texts) ==
    Join([i \in 1..Min(Len(ids), Len(texts)) |-> ids[i] \o <<TAB>> \o texts[i] \o <<NEWLINE>>])

\* where the character c is first in text, or 0
RECURSIVE Find(_, _, _)
Find(text, c, from) ==
    IF from > Len(text) THEN 0
    ELSE IF text[from] = c THEN from
    ELSE Find(text, c, from + 1)

\* for line in f: the lines of a file, each up to and with its newline
RECURSIVE LinesOf(_)
LinesOf(content) ==
    IF Len(content) = 0 THEN <<>>
    ELSE LET at == Find(content, NEWLINE, 1)
         IN IF at = 0 THEN <<content>>
            ELSE <<SubSeq(content, 1, at)>> \o LinesOf(SubSeq(content, at + 1, Len(content)))

\* str.strip()
RECURSIVE Strip(_)
Strip(text) ==
    IF Len(text) = 0 THEN text
    ELSE IF Head(text) \in Whitespace THEN Strip(Tail(text))
    ELSE IF text[Len(text)] \in Whitespace THEN Strip(SubSeq(text, 1, Len(text) - 1))
    ELSE text

\* str.split("\t", 1)
SplitAtTab(text) ==
    LET at == Find(text, TAB, 1)
    IN IF at = 0 THEN <<text>>
       ELSE <<SubSeq(text, 1, at - 1), SubSeq(text, at + 1, Len(text))>>

\* the loop of load over the lines of metadata.txt: the ids and texts appended
RECURSIVE ReadMetadata(_, _, _)
ReadMetadata(lines, ids, texts) ==
    IF Len(lines) = 0 THEN [ids |-> ids, texts |-> texts]
    ELSE LET parts == SplitAtTab(Strip(Head(lines)))
         IN IF Len(parts) = 2
            THEN ReadMetadata(Tail(lines), Append(ids, parts[1]), Append(texts, parts[2]))
            ELSE ReadMetadata(Tail(lines), ids, texts)

\* save(path): embeddings.npy or index.faiss, and metadata.txt
SaveFiles(vectors, ids, texts) ==
    [saved |-> TRUE, vectors |-> vectors, metadata |-> MetadataOf(ids, texts)]

\* load(path) on a store constructed anew: both files exist
LoadFiles(files) ==
    LET read == ReadMetadata(LinesOf(files.metadata), <<>>, <<>>)
    IN [loaded |-> TRUE, vectors |-> files.vectors, texts |-> read.texts, ids |-> read.ids]

\* what a search call gives its caller: results, or the IndexError of
\* self.ids[i] in the in-memory store
Returns(results) == [raised |-> FALSE, results |-> results]

SearchRaised == [raised |-> TRUE, results |-> <<>>]

InMemorySearchCall(store, embedding, top_k, order) ==
    IF Len(store.embeddings) # 0
       /\ \E r \in 1..Min(top_k, Len(order)) : Reverse(order)[r] > Len(store.ids)
    THEN SearchRaised
    ELSE Returns(InMemorySearch(store, embedding, top_k, order))

FaissSearchCall(store, embedding, top_k, order) ==
    Returns(FaissSearch(store, embedding, top_k, order))

\* the ids of the results, in rank order
IdsOf(results) == [r \in 1..Len(results) |-> results[r].id]

(***************************************************************************)
(* SpecPersist: one store is filled, saved under a path and loaded into a  *)
(* store of the same kind constructed anew; then the same search is made   *)
(* on both.                                                                *)
(***************************************************************************)
\* the entries inserted: ids and texts a caller may pass, the text with
\* no character, with a tab and with a newline among them
PersistEntries ==
    { [id |-> <<"a">>, text |-> <<"x">>, vec |-> <<1, 0>>],
      [id |-> <<"b">>, text |-> <<>>, vec |-> <<0, 1>>],
      [id |-> <<"c">>, text |-> <<"x", TAB, "y">>, vec |-> <<1, 1>>],
      [id |-> <<"d">>, text |-> <<"x", NEWLINE, "y">>, vec |-> <<2, 0>>] }

PersistQueries == { <<1, 0>>, <<0, 1>> }

InitPersist ==
    /\ phase = "build"
    /\ rule = PyNone
    /\ wraps = 0
    /\ config = NoConfig
    /\ allowed_keys = Vocabulary
    /\ max_depth = ConfigMaxDepth(config)
    /\ max_size = ConfigMaxSize(config)
    /\ outcome = NoCall
    /\ stack = <<>>
    /\ lastCall = NoBuilderCall
    /\ grammar = NoCall
    /\ store_type \in {"in-memory", "faiss"}
    /\ mem = EmptyMem
    /\ fa = NewFaiss(2)
    /\ lastSearch = NoSearch
    /\ Idle

\* store.save(path)
Save ==
    /\ phase = "build"
    /\ disk' = SaveFiles(StoredVectors, StoredIds, StoredTexts)
    /\ phase' = "saved"
    /\ UNCHANGED <<rule, wraps, config, allowed_keys, max_depth, max_size, outcome,
                   stack, lastCall, grammar, store_type, mem, fa, lastSearch,
                   lastAdd, reloaded, lastProbe, application, textCalls>>

\* create_vector_store(store_type, dimension).load(path)
Load ==
    /\ phase = "saved"
    /\ reloaded' = LoadFiles(disk)
    /\ phase' = "loaded"
    /\ UNCHANGED <<rule, wraps, config, allowed_keys, max_depth, max_size, outcome,
                   stack, lastCall, grammar, store_type, mem, fa, lastSearch,
                   lastAdd, disk, lastProbe, application, textCalls>>

\* the store load filled, as an InMemoryVectorStore and as a FAISSVectorStore
ReloadedMem ==
    [embeddings |-> reloaded.vectors, texts |-> reloaded.texts, ids |-> reloaded.ids]

ReloadedFaiss ==
    [index |-> reloaded.vectors, texts |-> reloaded.texts, ids |-> reloaded.ids,
     dimension |-> fa.dimension]

\* search(embedding, top_k) on the saved store and on the loaded one; the
\* vectors are the same, and so is the order the sort gives them
ProbeReloaded(embedding, top_k) ==
    /\ phase = "loaded"
    /\ IF store_type = "faiss"
       THEN \E order \in NearestOrders([i \in 1..Len(fa.index) |->
                                           L2Distance(embedding, fa.index[i])]) :
              lastProbe' = [called |-> TRUE, embedding |-> embedding, top_k |-> top_k,
                            first |-> FaissSearchCall(fa, embedding, top_k, order),
                            second |-> FaissSearchCall(ReloadedFaiss, embedding, top_k, order)]
       ELSE \E order \in ArgSorts([i \in 1..Len(mem.embeddings) |->
                                      cosine_similarity(embedding, mem.embeddings[i])]) :
              lastProbe' = [called |-> TRUE, embedding |-> embedding, top_k |-> top_k,
                            first |-> InMemorySearchCall(mem, embedding, top_k, order),
                            second |-> InMemorySearchCall(ReloadedMem, embedding, top_k, order)]
    /\ phase' = "done"
    /\ UNCHANGED <<rule, wraps, config, allowed_keys, max_depth, max_size, outcome,
                   stack, lastCall, grammar, store_type, mem, fa, lastSearch,
                   lastAdd, disk, reloaded, application, textCalls>>

NextPersist ==
    \/ \E entry \in PersistEntries : AddTexts(<<entry>>, TRUE)
    \/ Save
    \/ Load
    \/ \E embedding \in PersistQueries, top_k \in 1..MaxTopK : ProbeReloaded(embedding, top_k)

SpecPersist == InitPersist /\ [][NextPersist]_vars

\* C15: after save(path) and load(path) into a store of the same kind
\* constructed anew, search(v, k) on the loaded store returns the ids that
\* search(v, k) on the saved store returns, in the same order.
C15_SaveLoadRoundTrip ==
    lastProbe.called =>
        /\ ~lastProbe.second.raised
        /\ IdsOf(lastProbe.second.results) = IdsOf(lastProbe.first.results)

(***************************************************************************)
(* SpecPair: an InMemoryVectorStore and a FAISSVectorStore get the same    *)
(* add_texts calls, and then the same search call.                         *)
(***************************************************************************)
PairEntries ==
    { [id |-> "user_age", text |-> "user_age", vec |-> <<1, 0>>],
      [id |-> "age", text |-> "age", vec |-> <<3, 0>>],
      [id |-> "purchase_amount", text |-> "purchase_amount", vec |-> <<0, 1>>] }

PairQueries == { <<1, 0>>, <<1, 1>> }

InitPair ==
    /\ phase = "build"
    /\ rule = PyNone
    /\ wraps = 0
    /\ config = NoConfig
    /\ allowed_keys = Vocabulary
    /\ max_depth = ConfigMaxDepth(config)
    /\ max_size = ConfigMaxSize(config)
    /\ outcome = NoCall
    /\ stack = <<>>
    /\ lastCall = NoBuilderCall
    /\ grammar = NoCall
    /\ store_type = "in-memory"
    /\ mem = EmptyMem
    /\ fa = NewFaiss(2)
    /\ lastSearch = NoSearch
    /\ Idle

\* add_texts(texts, embeddings, ids) on the one store and on the other
AddTextsToBoth(batch) ==
    LET texts == [i \in 1..Len(batch) |-> batch[i].text]
        embeddings == [i \in 1..Len(batch) |-> batch[i].vec]
        ids == [i \in 1..Len(batch) |-> batch[i].id]
    IN /\ phase = "build"
       /\ Len(mem.embeddings) + Len(batch) <= MaxEntries
       /\ mem' = InMemoryAddTexts(mem, texts, embeddings, ids).store
       /\ fa' = FaissAddTexts(fa, texts, embeddings, ids).store
       /\ lastAdd' = [called |-> TRUE,
                      raised |-> \/ InMemoryAddTexts(mem, texts, embeddings, ids).raised
                                 \/ FaissAddTexts(fa, texts, embeddings, ids).raised,
                      rows |-> RowLength(embeddings)]
       /\ UNCHANGED <<phase, rule, wraps, config, allowed_keys, max_depth, max_size,
                      outcome, stack, lastCall, grammar, store_type, lastSearch,
                      disk, reloaded, lastProbe, application, textCalls>>

\* search(embedding, top_k) on the one store and on the other
ProbeBoth(embedding, top_k) ==
    /\ phase = "build"
    /\ \E order \in ArgSorts([i \in 1..Len(mem.embeddings) |->
                                 cosine_similarity(embedding, mem.embeddings[i])]),
          nearest \in NearestOrders([i \in 1..Len(fa.index) |->
                                        L2Distance(embedding, fa.index[i])]) :
          lastProbe' = [called |-> TRUE, embedding |-> embedding, top_k |-> top_k,
                        first |-> InMemorySearchCall(mem, embedding, top_k, order),
                        second |-> FaissSearchCall(fa, embedding, top_k, nearest)]
    /\ phase' = "done"
    /\ UNCHANGED <<rule, wraps, config, allowed_keys, max_depth, max_size, outcome,
                   stack, lastCall, grammar, store_type, mem, fa, lastSearch,
                   lastAdd, disk, reloaded, application, textCalls>>

NextPair ==
    \/ \E batch \in UNION {[1..n -> PairEntries] : n \in 1..MaxBatch} : AddTextsToBoth(batch)
    \/ \E embedding \in PairQueries, top_k \in 1..MaxTopK : ProbeBoth(embedding, top_k)

SpecPair == InitPair /\ [][NextPair]_vars

\* C16: after the same insertions, for the same query vector and k,
\* InMemoryVectorStore.search and FAISSVectorStore.search return the same
\* ids in the same order.
C16_StrategiesReturnSameIds ==
    lastProbe.called =>
        IdsOf(lastProbe.first.results) = IdsOf(lastProbe.second.results)

(***************************************************************************)
(* KeyMapper. A threshold is the fraction <<p, q>> = p / q with p, q > 0.  *)
(***************************************************************************)
\* similarity >= threshold, the opposite of best_similarity < threshold
ScoreAtLeast(score, threshold) ==
    /\ score.sgn > 0
    /\ score.num * threshold[2] * threshold[2] >= threshold[1] * threshold[1] * score.den

\* KeyMapping(user_phrase, mapped_to, similarity)
KeyMapping(user_phrase, mapped_to, similarity) ==
    [user_phrase |-> user_phrase, mapped_to |-> mapped_to, similarity |-> similarity]

\* the parts of the error messages of map_phrases
NoMatchesFound(phrase) ==
    [kind |-> "no_matches", phrase |-> phrase, similarity |-> Score(0, 0, 1),
     suggestions |-> <<>>]

ConfidenceTooLow(phrase, best_similarity, suggestions) ==
    [kind |-> "low_confidence", phrase |-> phrase, similarity |-> best_similarity,
     suggestions |-> suggestions]

\* map_phrases accepting a best match only above the threshold
RECURSIVE MapPhrasesAboveThreshold(_, _, _, _, _)
MapPhrasesAboveThreshold(phrases, searches, similarity_threshold, mappings, errors) ==
    IF Len(phrases) = 0 THEN [mappings |-> mappings, errors |-> errors]
    ELSE LET phrase == Head(phrases)
             results == Head(searches)
         IN IF Len(results) = 0
            THEN MapPhrasesAboveThreshold(Tail(phrases), Tail(searches), similarity_threshold,
                                          mappings, Append(errors, NoMatchesFound(phrase)))
            ELSE IF ScoreGeq(Score(1, similarity_threshold[1] * similarity_threshold[1],
                                   similarity_threshold[2] * similarity_threshold[2]),
                             results[1].score)
            THEN MapPhrasesAboveThreshold(Tail(phrases), Tail(searches), similarity_threshold,
                                          mappings,
                                          Append(errors,
                                                 ConfidenceTooLow(phrase, results[1].score,
                                                                  FirstN(IdsOf(results), 3))))
            ELSE MapPhrasesAboveThreshold(Tail(phrases), Tail(searches), similarity_threshold,
                                          Append(mappings,
                                                 KeyMapping(phrase, results[1].id,
                                                            results[1].score)),
                                          errors)

\* map_phrases putting every result among the suggestions
RECURSIVE MapPhrasesSuggestingAll(_, _, _, _, _)
MapPhrasesSuggestingAll(phrases, searches, similarity_threshold, mappings, errors) ==
    IF Len(phrases) = 0 THEN [mappings |-> mappings, errors |-> errors]
    ELSE LET phrase == Head(phrases)
             results == Head(searches)
         IN IF Len(results) = 0
            THEN MapPhrasesSuggestingAll(Tail(phrases), Tail(searches), similarity_threshold,
                                         mappings, Append(errors, NoMatchesFound(phrase)))
            ELSE IF ~ScoreAtLeast(results[1].score, similarity_threshold)
            THEN MapPhrasesSuggestingAll(Tail(phrases), Tail(searches), similarity_threshold,
                                         mappings,
                                         Append(errors,
                                                ConfidenceTooLow(phrase, results[1].score,
                                                                 IdsOf(results))))
            ELSE MapPhrasesSuggestingAll(Tail(phrases), Tail(searches), similarity_threshold,
                                         Append(mappings,
                                                KeyMapping(phrase, results[1].id,
                                                           results[1].score)),
                                         errors)

\* the loop of KeyMapper.map_phrases over the extracted phrases; searches[i]
\* is what self.vector_store.search returned for phrases[i]
RECURSIVE map_phrases(_, _, _, _, _)
map_phrases(phrases, searches, similarity_threshold, mappings, errors) ==
    IF Len(phrases) = 0 THEN [mappings |-> mappings, errors |-> errors]
    ELSE LET phrase == Head(phrases)
             results == Head(searches)
         IN IF Len(results) = 0
            THEN map_phrases(Tail(phrases), Tail(searches), similarity_threshold,
                             mappings, Append(errors, NoMatchesFound(phrase)))
            ELSE IF ~ScoreAtLeast(results[1].score, similarity_threshold)
            THEN map_phrases(Tail(phrases), Tail(searches), similarity_threshold,
                             mappings,
                             Append(errors,
                                    ConfidenceTooLow(phrase, results[1].score,
                                                     FirstN(IdsOf(results), 3))))
            ELSE map_phrases(Tail(phrases), Tail(searches), similarity_threshold,
                             Append(mappings,
                                    KeyMapping(phrase, results[1].id, results[1].score)),
                             errors)

(***************************************************************************)
(* SpecApp: create_app creates the vector store, constructs the KeyMapper  *)
(* and the RAGSystem on it, and then the application serves a call of      *)
(* map_phrases or a generate_rule request.                                 *)
(***************************************************************************)
\* how many phrases the extractor returns for one text
MaxPhrases == 2

\* the store keys of data/sample_store_keys.json, or none when the file is missing
StoreKeys == <<"user_age", "is_premium_member">>

StoreKeyLists == {<<>>, StoreKeys}

\* the phrases extract_phrases finds in a text
Phrases == {"premium", "age", "status", "order", "discount"}

\* the chunks of data/policy_docs.md
PolicyChunks == <<"Premium members get a discount", "Orders ship in two days">>

\* what the embedding provider returns for a text
Embed(text) ==
    CASE text = "user_age" -> <<1, 0>>
      [] text = "is_premium_member" -> <<0, 1>>
      [] text = "premium" -> <<0, 1>>
      [] text = "age" -> <<3, 1>>
      [] text = "status" -> <<3, -4>>
      [] text = "order" -> <<0, 0>>
      [] text = "discount" -> <<2, 2>>
      [] text = "Premium members get a discount" -> <<1, 1>>
      [] text = "Orders ship in two days" -> <<-1, 0>>
      [] OTHER -> <<1, 1>>

\* embedding_manager.embed(texts)
EmbedAll(texts) == [i \in 1..Len(texts) |-> Embed(texts[i])]

\* SIMILARITY_THRESHOLD: the default 0.75, and 0.6
Thresholds == { <<3, 4>>, <<3, 5>> }

\* SIMILARITY_TOP_K: the default 3, and 1 and 4
TopKs == {1, 3, 4}

\* RAGSystem's top_k and similarity_threshold as create_app leaves them
RAG_TOP_K == 3

RAG_SIMILARITY_THRESHOLD == <<1, 2>>

\* the policy documents RAGSystem finds: no file, or a file of 0 to 2 chunks
PolicyDocs ==
    { [exists |-> FALSE, chunks |-> <<>>] }
    \cup { [exists |-> TRUE, chunks |-> SubSeq(PolicyChunks, 1, n)] : n \in 0..Len(PolicyChunks) }

\* the lists of distinct phrases extract_phrases returns
PhraseLists ==
    {l \in UNION {[1..n -> Phrases] : n \in 0..MaxPhrases} :
        \A i, j \in 1..Len(l) : i # j => l[i] # l[j]}

Range(seq) == {seq[i] : i \in 1..Len(seq)}

InitApp ==
    /\ phase = "created"
    /\ rule = PyNone
    /\ wraps = 0
    /\ config = NoConfig
    /\ allowed_keys \in {Range(keys) : keys \in StoreKeyLists}
    /\ max_depth = ConfigMaxDepth(config)
    /\ max_size = ConfigMaxSize(config)
    /\ outcome = NoCall
    /\ stack = <<>>
    /\ lastCall = NoBuilderCall
    /\ grammar = NoCall
    /\ store_type \in {"in-memory", "faiss"}
    /\ mem = EmptyMem
    /\ fa = NewFaiss(2)
    /\ lastSearch = NoSearch
    /\ Idle

\* self.vector_store.add_texts(texts, embeddings, ids=ids) on the store in use
AddedToStore(texts, embeddings, ids) ==
    IF store_type = "faiss" THEN FaissAddTexts(fa, texts, embeddings, ids)
    ELSE InMemoryAddTexts(mem, texts, embeddings, ids)

\* KeyMapper(embedding_manager, vector_store, store_keys, similarity_threshold,
\* top_k): its fields, then _index_store_keys; an exception of add_texts
\* ends create_app
ConstructKeyMapper(store_keys, similarity_threshold, top_k) ==
    LET added == AddedToStore(store_keys, EmbedAll(store_keys), store_keys)
    IN /\ phase = "created"
       /\ Range(store_keys) = allowed_keys
       /\ mapper' = [constructed |-> ~added.raised, store_keys |-> store_keys,
                     similarity_threshold |-> similarity_threshold, top_k |-> top_k]
       /\ IF store_type = "faiss"
          THEN fa' = added.store /\ mem' = mem
          ELSE mem' = added.store /\ fa' = fa
       /\ lastAdd' = [called |-> TRUE, raised |-> added.raised,
                      rows |-> RowLength(EmbedAll(store_keys))]
       /\ phase' = IF added.raised THEN "failed" ELSE "mapper"
       /\ UNCHANGED <<rule, wraps, config, allowed_keys, max_depth, max_size, outcome,
                      stack, lastCall, grammar, store_type, lastSearch,
                      disk, reloaded, lastProbe, rag_system, lastMap, request, textCalls>>

\* RAGSystem(embedding_manager, vector_store, policy_docs_path, top_k): its
\* fields, then _load_and_index_policy_docs, which logs an exception of
\* add_texts and returns
ConstructRAGSystem(policy) ==
    LET ids == [i \in 1..Len(policy.chunks) |-> "policy_" \o Decimal(i - 1)]
        added == AddedToStore(policy.chunks, EmbedAll(policy.chunks), ids)
    IN /\ phase = "mapper"
       /\ rag_system' = [constructed |-> TRUE, top_k |-> RAG_TOP_K,
                         similarity_threshold |-> RAG_SIMILARITY_THRESHOLD]
       /\ IF policy.exists
          THEN /\ IF store_type = "faiss"
                  THEN fa' = added.store /\ mem' = mem
                  ELSE mem' = added.store /\ fa' = fa
               /\ lastAdd' = [called |-> TRUE, raised |-> added.raised,
                               rows |-> RowLength(EmbedAll(policy.chunks))]
          ELSE UNCHANGED <<mem, fa, lastAdd>>
       /\ phase' = "ready"
       /\ UNCHANGED <<rule, wraps, config, allowed_keys, max_depth, max_size, outcome,
                      stack, lastCall, grammar, store_type, lastSearch,
                      disk, reloaded, lastProbe, mapper, lastMap, request, textCalls>>

\* what self.vector_store.search(embedding, top_k) can return on the store
\* in use, the sort ordering equal similarities either way
StoreSearches(embedding, top_k) ==
    IF store_type = "faiss"
    THEN {FaissSearch(fa, embedding, top_k, order) :
            order \in NearestOrders([i \in 1..Len(fa.index) |->
                                       L2Distance(embedding, fa.index[i])])}
    ELSE {InMemorySearch(mem, embedding, top_k, order) :
            order \in ArgSorts([i \in 1..Len(mem.embeddings) |->
                                  cosine_similarity(embedding, mem.embeddings[i])])}

\* the results of the searches of one map_phrases call, phrase by phrase
RECURSIVE SearchesFor(_, _)
SearchesFor(phrases, top_k) ==
    IF Len(phrases) = 0 THEN {<<>>}
    ELSE {<<results>> \o rest :
            results \in StoreSearches(Embed(Head(phrases)), top_k),
            rest \in SearchesFor(Tail(phrases), top_k)}

\* what a map_phrases call leaves: the phrases extracted, the results of
\* their searches, and what it returned
Mapped(phrases, searches) ==
    LET returned == map_phrases(phrases, searches, mapper.similarity_threshold, <<>>, <<>>)
    IN [called |-> TRUE, phrases |-> phrases, searches |-> searches,
        mappings |-> returned.mappings, errors |-> returned.errors]

\* mapper.map_phrases(text), phrases being what extract_phrases(text) returns
MapPhrases(phrases) ==
    /\ phase = "ready"
    /\ \E searches \in SearchesFor(phrases, mapper.top_k) :
          lastMap' = Mapped(phrases, searches)
    /\ phase' = "served"
    /\ UNCHANGED <<rule, wraps, config, allowed_keys, max_depth, max_size, outcome,
                   stack, lastCall, grammar, store_type, mem, fa, lastSearch,
                   storeCalls, mapper, rag_system, request, textCalls>>

(***************************************************************************)
(* generate_rule, the handler of POST /generate-rule                       *)
(***************************************************************************)
\* the prompts of the requests
Prompts == {"Approve premium users"}

\* what llm_client.generate gives: an exception of the provider, or a text
\* that json.loads rejects ("invalid"), loads as a number, boolean or null
\* ("scalar"), loads as a dict with the key json_logic ("object"), or loads
\* as something else ("other")
LLMOutcomes ==
    { [raised |-> TRUE, loaded |-> "invalid", text |-> "", json_logic |-> PyNone],
      [raised |-> FALSE, loaded |-> "invalid", text |-> "This is a mock response.",
       json_logic |-> PyNone],
      [raised |-> FALSE, loaded |-> "scalar", text |-> "18", json_logic |-> PyNone],
      [raised |-> FALSE, loaded |-> "other", text |-> "[]", json_logic |-> PyNone],
      [raised |-> FALSE, loaded |-> "object", text |-> "",
       json_logic |-> PyDict(<< <<">", PyList(<<Var("user_age"), PyInt(18)>>)>> >>)],
      [raised |-> FALSE, loaded |-> "object", text |-> "",
       json_logic |-> PyDict(<< <<"unknown_op", PyList(<<Var("user_age"), PyInt(18)>>)>> >>)],
      [raised |-> FALSE, loaded |-> "object", text |-> "",
       json_logic |-> PyDict(<< <<"var", PyList(<<PyInt(18)>>)>> >>)] }

\* RAGSystem.retrieve: the ids of the results at or above the threshold,
\* which it joins into a bullet list; no result gives the empty string
retrieve(results, similarity_threshold, top_k) ==
    FirstN(IdsOf(SelectSeq(results, LAMBDA result :
                              ScoreAtLeast(result.score, similarity_threshold))),
           top_k)

\* HTTPException(status_code=400, detail=...), the first three errors joined
SuggestionsDetail(mapping_errors) ==
    [message |-> "Phrase mapping confidence below threshold. Suggestions",
     errors |-> FirstN(mapping_errors, 3), more |-> Len(mapping_errors) > 3]

\* HTTPException(status_code=500, detail=f"Error generating rule: {str(e)}")
ErrorDetail == [message |-> "Error generating rule", errors |-> <<>>, more |-> FALSE]

NoDetail == [message |-> "", errors |-> <<>>, more |-> FALSE]

\* generate_rule aborting on any mapping error
GenerateRuleAbortingOnAnyMiss(mapped, rag_enabled, rag_context, llm) ==
    IF Len(mapped.errors) > 0
    THEN [NoRequest EXCEPT !.called = TRUE, !.rag_enabled = rag_enabled,
                           !.calls = <<"map_phrases">>, !.status_code = 400,
                           !.detail = SuggestionsDetail(mapped.errors),
                           !.mappings = mapped.mappings,
                           !.mapping_errors = mapped.errors]
    ELSE [NoRequest EXCEPT !.called = TRUE, !.rag_enabled = rag_enabled,
                           !.calls = <<"map_phrases", "retrieve", "generate">>,
                           !.status_code = 500, !.detail = ErrorDetail,
                           !.mappings = mapped.mappings,
                           !.mapping_errors = mapped.errors]

\* generate_rule from the return of map_phrases on: what it called and
\* what it answered
generate_rule(mapped, rag_enabled, rag_context, llm) ==
    LET began == [NoRequest EXCEPT !.called = TRUE, !.rag_enabled = rag_enabled,
                                   !.mappings = mapped.mappings,
                                   !.mapping_errors = mapped.errors]
        retrieved == <<"map_phrases">> \o (IF rag_enabled THEN <<"retrieve">> ELSE <<>>)
        context == IF rag_enabled THEN rag_context ELSE <<>>
        json_logic == CASE llm.loaded = "invalid" -> PyDict(<<>>)
                        [] llm.loaded = "object" -> llm.json_logic
                        [] OTHER -> PyStr(llm.text)
        validation == validate_complete(json_logic, allowed_keys, max_depth, max_size)
    IN IF Len(mapped.errors) > 0 /\ Len(mapped.mappings) = 0
       THEN [began EXCEPT !.calls = <<"map_phrases">>, !.status_code = 400,
                          !.detail = SuggestionsDetail(mapped.errors)]
       ELSE IF llm.raised \/ llm.loaded = "scalar"
       THEN [began EXCEPT !.calls = retrieved \o <<"generate">>, !.status_code = 500,
                          !.detail = ErrorDetail, !.rag_context = context]
       ELSE IF validation.raised \/ json_logic.t # "dict"
       THEN [began EXCEPT !.calls = retrieved \o <<"generate", "validate_complete">>,
                          !.status_code = 500, !.detail = ErrorDetail,
                          !.rag_context = context, !.json_logic = json_logic,
                          !.validation = validation]
       ELSE [began EXCEPT !.calls = retrieved \o <<"generate", "validate_complete">>,
                          !.status_code = 200, !.rag_context = context,
                          !.json_logic = json_logic, !.validation = validation]

\* POST /generate-rule with a prompt: phrases is what extract_phrases finds
\* in it, rag_enabled is config["rag"]["enabled"], llm is what the language
\* model does; lastSearch is the search rag_system.retrieve made, if
\* retrieve was called
GenerateRule(prompt, phrases) ==
    /\ phase = "ready"
    /\ \E searches \in SearchesFor(phrases, mapper.top_k),
          results \in StoreSearches(Embed(prompt), rag_system.top_k) :
          LET mapped == Mapped(phrases, searches)
              rag_context == retrieve(results, rag_system.similarity_threshold,
                                      rag_system.top_k)
          IN /\ lastMap' = mapped
             /\ \E rag_enabled \in BOOLEAN, llm \in LLMOutcomes :
                   request' = generate_rule(mapped, rag_enabled, rag_context, llm)
             /\ lastSearch' = IF "retrieve" \in Range(request'.calls)
                              THEN [called |-> TRUE, embedding |-> Embed(prompt),
                                    top_k |-> rag_system.top_k, results |-> results]
                              ELSE lastSearch
    /\ phase' = "served"
    /\ UNCHANGED <<rule, wraps, config, allowed_keys, max_depth, max_size, outcome,
                   stack, lastCall, grammar, store_type, mem, fa,
                   storeCalls, mapper, rag_system, textCalls>>

NextApp ==
    \/ \E store_keys \in StoreKeyLists, similarity_threshold \in Thresholds, top_k \in TopKs :
          ConstructKeyMapper(store_keys, similarity_threshold, top_k)
    \/ \E policy \in PolicyDocs : ConstructRAGSystem(policy)
    \/ \E phrases \in PhraseLists : MapPhrases(phrases)
    \/ \E prompt \in Prompts, phrases \in PhraseLists : GenerateRule(prompt, phrases)

SpecApp == InitApp /\ [][NextApp]_vars

(***************************************************************************)
(* Claims about map_phrases, checked under SpecApp                         *)
(***************************************************************************)
\* the positions 1..n in order
Positions(n) == [i \in 1..n |-> i]

\* the best match of the i-th phrase of the last map_phrases call reaches
\* the mapper's threshold
Accepted(i) ==
    /\ Len(lastMap.searches[i]) > 0
    /\ ScoreAtLeast(lastMap.searches[i][1].score, mapper.similarity_threshold)

Missed(i) == ~Accepted(i)

\* C17: map_phrases partitions the extracted phrases in extraction order: the
\* mappings are one KeyMapping to the top-ranked entry for each phrase whose
\* best similarity is at least similarity_threshold, in extraction order, the
\* misses are one for each other phrase, in extraction order, the two counts
\* sum to the number of phrases, and no phrase gives no mapping and no miss.
C17_MapPhrasesPartitionsInOrder ==
    lastMap.called =>
        LET accepted == SelectSeq(Positions(Len(lastMap.phrases)), Accepted)
            missed == SelectSeq(Positions(Len(lastMap.phrases)), Missed)
        IN /\ Len(lastMap.searches) = Len(lastMap.phrases)
           /\ Len(lastMap.mappings) = Len(accepted)
           /\ \A j \in 1..Len(accepted) :
                 lastMap.mappings[j] =
                     KeyMapping(lastMap.phrases[accepted[j]],
                                lastMap.searches[accepted[j]][1].id,
                                lastMap.searches[accepted[j]][1].score)
           /\ Len(lastMap.errors) = Len(missed)
           /\ \A j \in 1..Len(missed) : lastMap.errors[j].phrase = lastMap.phrases[missed[j]]
           /\ Len(lastMap.mappings) + Len(lastMap.errors) = Len(lastMap.phrases)
           /\ (Len(lastMap.phrases) = 0 => lastMap.mappings = <<>> /\ lastMap.errors = <<>>)

\* a call with two phrases, the first one a miss and the second one mapped
\* with a similarity equal to the threshold
C17_Witness ==
    /\ lastMap.called
    /\ Len(lastMap.phrases) = 2
    /\ Len(lastMap.mappings) = 1
    /\ Len(lastMap.errors) = 1
    /\ lastMap.errors[1].phrase = lastMap.phrases[1]
    /\ lastMap.mappings[1].user_phrase = lastMap.phrases[2]
    /\ ScoreGeq(Score(1, mapper.similarity_threshold[1] * mapper.similarity_threshold[1],
                      mapper.similarity_threshold[2] * mapper.similarity_threshold[2]),
                lastMap.mappings[1].similarity)

\* C18: every miss of map_phrases whose phrase has a best match below the
\* threshold carries the ids of the first three results of that phrase's
\* search in rank order, all of them when there are fewer than three, and
\* never more than three.
C18_MissesCarryTopThreeSuggestions ==
    lastMap.called =>
        LET missed == SelectSeq(Positions(Len(lastMap.phrases)), Missed)
        IN \A j \in 1..Len(lastMap.errors) :
              LET results == lastMap.searches[missed[j]]
              IN Len(results) > 0 =>
                    /\ lastMap.errors[j].kind = "low_confidence"
                    /\ Len(lastMap.errors[j].suggestions) = Min(3, Len(results))
                    /\ \A r \in 1..Len(lastMap.errors[j].suggestions) :
                          lastMap.errors[j].suggestions[r] = results[r].id

\* a miss with three suggestions for a phrase whose search returned four results
C18_Witness ==
    /\ lastMap.called
    /\ \E j \in 1..Len(lastMap.errors), i \in 1..Len(lastMap.phrases) :
          /\ lastMap.errors[j].phrase = lastMap.phrases[i]
          /\ Len(lastMap.searches[i]) = 4
          /\ Len(lastMap.errors[j].suggestions) = 3

(***************************************************************************)
(* Claims about generate_rule, checked under SpecApp                       *)
(***************************************************************************)
\* the request was aborted with the 400 response carrying the suggestions,
\* after map_phrases and before anything else was invoked
AbortedWithSuggestions ==
    /\ request.status_code = 400
    /\ request.detail = SuggestionsDetail(request.mapping_errors)
    /\ request.detail.message = "Phrase mapping confidence below threshold. Suggestions"
    /\ request.calls = <<"map_phrases">>

\* a 200 response was validated, and a request that ended before the
\* validation answered 500
ValidationBeforeSuccess ==
    /\ request.status_code = 200 => "validate_complete" \in Range(request.calls)
    /\ "validate_complete" \notin Range(request.calls) => request.status_code = 500
    /\ "validate_complete" \in Range(request.calls) =>
          request.calls[Len(request.calls)] = "validate_complete"

\* C19 as stated: no mapping and at least one miss abort the request with the
\* 400 response carrying the suggestions before the retrieval component or
\* the language model is invoked; with at least one mapping the request is
\* not aborted, whatever the misses, and goes on to retrieval, then
\* generation, then validation.
C19_AbortOnlyWithoutMappings ==
    request.called =>
        /\ (Len(request.mappings) = 0 /\ Len(request.mapping_errors) > 0) =>
              AbortedWithSuggestions
        /\ Len(request.mappings) > 0 =>
              /\ request.status_code # 400
              /\ Len(request.calls) >= 3
              /\ SubSeq(request.calls, 1, 3) = <<"map_phrases", "retrieve", "generate">>
              /\ ValidationBeforeSuccess

\* C19: no mapping and at least one miss abort the request with the 400
\* response carrying the suggestions before the retrieval component or the
\* language model is invoked, and nothing else gives a 400; with at least one
\* mapping the request goes on to retrieval when config["rag"]["enabled"] is
\* not false and skips it otherwise, then to generation, then to validation.
C19_AbortOnlyWithoutMappingsRagOptional ==
    request.called =>
        LET fatal == Len(request.mappings) = 0 /\ Len(request.mapping_errors) > 0
            begun == IF request.rag_enabled
                     THEN <<"map_phrases", "retrieve", "generate">>
                     ELSE <<"map_phrases", "generate">>
        IN /\ fatal => AbortedWithSuggestions
           /\ request.status_code = 400 => fatal
           /\ ~fatal =>
                 /\ Len(request.calls) >= Len(begun)
                 /\ SubSeq(request.calls, 1, Len(begun)) = begun
                 /\ ValidationBeforeSuccess

\* a request with one mapping and one miss that went through retrieval,
\* generation and validation and answered 200
C19_Witness ==
    /\ request.called
    /\ Len(request.mappings) = 1
    /\ Len(request.mapping_errors) = 1
    /\ request.rag_enabled
    /\ request.calls = <<"map_phrases", "retrieve", "generate", "validate_complete">>
    /\ request.status_code = 200

(***************************************************************************)
(* Claim about the index of the KeyMapper, checked under SpecApp           *)
(***************************************************************************)
\* C20: once create_app has constructed the KeyMapper and the RAGSystem, the
\* index map_phrases searches holds one entry per vocabulary key and nothing
\* else, and every mapped_to of a KeyMapping is a vocabulary key.
C20_MapperIndexHoldsTheVocabulary ==
    phase \in {"ready", "served"} =>
        /\ StoredIds = mapper.store_keys
        /\ \A j \in 1..Len(lastMap.mappings) :
              lastMap.mappings[j].mapped_to \in Range(mapper.store_keys)

(***************************************************************************)
(* Claims about RAGSystem.retrieve, checked under SpecApp on the retrieve  *)
(* call of generate_rule                                                   *)
(***************************************************************************)
\* generate_rule called rag_system.retrieve(request.prompt)
RetrieveCalled == request.called /\ "retrieve" \in Range(request.calls)

\* the positions of the store that _load_and_index_policy_docs filled: the
\* ones after the store keys
ChunkPositions == {i \in 1..Len(StoredIds) : i > Len(mapper.store_keys)}

\* the results of the search of retrieve at or above its threshold
Clearing(results) ==
    SelectSeq(results, LAMBDA result :
                 ScoreAtLeast(result.score, rag_system.similarity_threshold))

\* C21: retrieve returns, in rank order, the chunk text (not the chunk id) of
\* each of the top-k entries whose similarity to the query is at least the
\* retrieval threshold, every one of them a chunk of the policy document.
C21_RetrieveReturnsChunkTexts ==
    RetrieveCalled =>
        LET clearing == Clearing(lastSearch.results)
        IN /\ Len(request.rag_context) = Len(clearing)
           /\ \A r \in 1..Len(clearing) :
                 /\ clearing[r].index + 1 \in ChunkPositions
                 /\ request.rag_context[r] = StoredTexts[clearing[r].index + 1]

\* C22: retrieve returns the empty string whenever the retrieval component
\* inserted no chunk, or no chunk's similarity to the query reaches the
\* threshold.
C22_RetrieveSoftFails ==
    (/\ RetrieveCalled
     /\ \A i \in ChunkPositions :
           ~ScoreAtLeast(SimilarityTo(lastSearch.embedding, StoredVectors[i]),
                         rag_system.similarity_threshold))
        => request.rag_context = <<>>

(***************************************************************************)
(* RAGSystem._chunk_policy_docs. The content of the policy document is the *)
(* sequence of its characters.                                             *)
(***************************************************************************)
HASH == "#"

\* where the two characters "##" are first in text, or 0
RECURSIVE FindSectionMark(_, _)
FindSectionMark(text, from) ==
    IF from + 1 > Len(text) THEN 0
    ELSE IF text[from] = HASH /\ text[from + 1] = HASH THEN from
    ELSE FindSectionMark(text, from + 1)

\* content.split("##")
RECURSIVE SplitSections(_)
SplitSections(content) ==
    LET at == FindSectionMark(content, 1)
    IN IF at = 0 THEN <<content>>
       ELSE <<SubSeq(content, 1, at - 1)>>
            \o SplitSections(SubSeq(content, at + 2, Len(content)))

\* section.split("\n")
RECURSIVE SplitLines(_)
SplitLines(section) ==
    LET at == Find(section, NEWLINE, 1)
    IN IF at = 0 THEN <<section>>
       ELSE <<SubSeq(section, 1, at - 1)>>
            \o SplitLines(SubSeq(section, at + 1, Len(section)))

\* (chunk_text, source)
Chunk(text, source) == [text |-> text, source |-> source]

\* the loop over lines[1:] of one section, and the last chunk of the section
RECURSIVE ChunkLines(_, _, _, _, _)
ChunkLines(lines, current_chunk, chunk_size, section_title, chunks) ==
    IF Len(lines) = 0
    THEN IF Len(current_chunk) > 0
         THEN Append(chunks, Chunk(Strip(current_chunk), section_title))
         ELSE chunks
    ELSE LET line == Head(lines)
         IN IF Len(current_chunk) + Len(line) > chunk_size
            THEN ChunkLines(Tail(lines), line, chunk_size, section_title,
                            IF Len(current_chunk) > 0
                            THEN Append(chunks, Chunk(Strip(current_chunk), section_title))
                            ELSE chunks)
            ELSE ChunkLines(Tail(lines), current_chunk \o <<NEWLINE>> \o line, chunk_size,
                            section_title, chunks)

\* the loop over the sections
RECURSIVE ChunkSections(_, _, _)
ChunkSections(sections, chunk_size, chunks) ==
    IF Len(sections) = 0 THEN chunks
    ELSE LET section == Strip(Head(sections))
             lines == SplitLines(section)
         IN IF Len(section) = 0
            THEN ChunkSections(Tail(sections), chunk_size, chunks)
            ELSE ChunkSections(Tail(sections), chunk_size,
                               ChunkLines(Tail(lines), <<>>, chunk_size, Head(lines), chunks))

\* _chunk_policy_docs(content, chunk_size)
_chunk_policy_docs(content, chunk_size) ==
    ChunkSections(SplitSections(content), chunk_size, <<>>)

(***************************************************************************)
(* SpecChunk: one call of _chunk_policy_docs on a document.                 *)
(***************************************************************************)
\* how many characters the document has
MaxContent == 7

\* the largest chunk_size
MaxChunkSize == 3

\* the characters of the documents
ContentCharacters == {"a", NEWLINE, HASH}

Contents == UNION {[1..n -> ContentCharacters] : n \in 0..MaxContent}

InitChunk ==
    /\ phase = "build"
    /\ rule = PyNone
    /\ wraps = 0
    /\ config = NoConfig
    /\ allowed_keys = Vocabulary
    /\ max_depth = ConfigMaxDepth(config)
    /\ max_size = ConfigMaxSize(config)
    /\ outcome = NoCall
    /\ stack = <<>>
    /\ lastCall = NoBuilderCall
    /\ grammar = NoCall
    /\ store_type = "in-memory"
    /\ mem = EmptyMem
    /\ fa = EmptyFaiss
    /\ lastSearch = NoSearch
    /\ lastAdd = NoAdd
    /\ disk = NoFiles
    /\ reloaded = NotLoaded
    /\ lastProbe = NoProbe
    /\ mapper = NoMapper
    /\ rag_system = NoRagSystem
    /\ lastMap = NoMap
    /\ request = NoRequest
    /\ \E content \in Contents, chunk_size \in 1..MaxChunkSize :
          chunking = [called |-> FALSE, content |-> content, chunk_size |-> chunk_size,
                      chunks |-> <<>>]
    /\ extraction = NoExtraction
    /\ handlers = NoHandlers
    /\ serialized = NoSerialized

\* self._chunk_policy_docs(content, chunk_size)
ChunkPolicyDocs ==
    /\ phase = "build"
    /\ chunking' = [chunking EXCEPT !.called = TRUE,
                                    !.chunks = _chunk_policy_docs(chunking.content,
                                                                  chunking.chunk_size)]
    /\ phase' = "done"
    /\ UNCHANGED <<rule, wraps, config, allowed_keys, max_depth, max_size, outcome,
                   stack, lastCall, grammar, store_type, mem, fa, lastSearch,
                   storeCalls, application, extraction, handlers, serialized>>

NextChunk == ChunkPolicyDocs

SpecChunk == InitChunk /\ [][NextChunk]_vars

\* lines joined by newlines
RECURSIVE JoinLines(_)
JoinLines(lines) ==
    IF Len(lines) = 0 THEN <<>>
    ELSE IF Len(lines) = 1 THEN Head(lines)
    ELSE Head(lines) \o <<NEWLINE>> \o JoinLines(Tail(lines))

\* the lines after the title of every section of the content that is not blank
SectionBodies(content) ==
    LET sections == SelectSeq([i \in 1..Len(SplitSections(content)) |->
                                  Strip(SplitSections(content)[i])],
                              LAMBDA section : Len(section) > 0)
    IN [i \in 1..Len(sections) |-> Tail(SplitLines(sections[i]))]

\* C23: when no line of the document is longer than chunk_size, every chunk
\* is a run of whole consecutive lines of one section, up to the whitespace
\* strip() removes at its ends, and has at most chunk_size characters.
C23_ChunksAreWholeLinesWithinBudget ==
    (/\ chunking.called
     /\ \A b \in 1..Len(SectionBodies(chunking.content)) :
           \A l \in 1..Len(SectionBodies(chunking.content)[b]) :
               Len(SectionBodies(chunking.content)[b][l]) <= chunking.chunk_size)
        => \A c \in 1..Len(chunking.chunks) :
              /\ Len(chunking.chunks[c].text) <= chunking.chunk_size
              /\ \E b \in 1..Len(SectionBodies(chunking.content)) :
                    LET lines == SectionBodies(chunking.content)[b]
                    IN \E i \in 1..Len(lines), j \in 1..Len(lines) :
                          /\ i <= j
                          /\ chunking.chunks[c].text = Strip(JoinLines(SubSeq(lines, i, j)))

(***************************************************************************)
(* The capitalized-term pass of PhraseExtractor.extract_phrases. A text is *)
(* the sequence of its characters: "A" is an uppercase letter, "a" a       *)
(* lowercase letter, "1" a digit, "." a character that is no word          *)
(* character, " " a blank.                                                 *)
(***************************************************************************)
\* str.isupper() of one character
IsUpper(c) == c = "A"

IsLetter(c) == c \in {"A", "a"}

\* \w
IsWordCharacter(c) == c \in {"A", "a", "1", "_"}

\* text.split(): the runs of characters that are no whitespace
RECURSIVE SplitWords(_, _, _)
SplitWords(text, word, words) ==
    IF Len(text) = 0
    THEN IF Len(word) > 0 THEN Append(words, word) ELSE words
    ELSE IF Head(text) \in Whitespace
    THEN SplitWords(Tail(text), <<>>, IF Len(word) > 0 THEN Append(words, word) ELSE words)
    ELSE SplitWords(Tail(text), Append(word, Head(text)), words)

\* re.sub(r"[^\w]", "", word)
CleanWord(word) == SelectSeq(word, IsWordCharacter)

\* the loop over the words: for word in words
RECURSIVE CapitalizedTerms(_, _)
CapitalizedTerms(words, phrases) ==
    IF Len(words) = 0 THEN phrases
    ELSE LET word == Head(words)
             clean_word == CleanWord(word)
         IN IF Len(word) > 3 /\ Len(clean_word) > 0 /\ IsUpper(clean_word[1])
            THEN CapitalizedTerms(Tail(words), Append(phrases, clean_word))
            ELSE CapitalizedTerms(Tail(words), phrases)

(***************************************************************************)
(* SpecExtract: one call of extract_phrases on a text.                     *)
(***************************************************************************)
\* how many characters the text has
MaxText == 6

TextCharacters == {"A", "a", "1", ".", " "}

Texts == UNION {[1..n -> TextCharacters] : n \in 0..MaxText}

InitExtract ==
    /\ phase = "build"
    /\ rule = PyNone
    /\ wraps = 0
    /\ config = NoConfig
    /\ allowed_keys = Vocabulary
    /\ max_depth = ConfigMaxDepth(config)
    /\ max_size = ConfigMaxSize(config)
    /\ outcome = NoCall
    /\ stack = <<>>
    /\ lastCall = NoBuilderCall
    /\ grammar = NoCall
    /\ store_type = "in-memory"
    /\ mem = EmptyMem
    /\ fa = EmptyFaiss
    /\ lastSearch = NoSearch
    /\ lastAdd = NoAdd
    /\ disk = NoFiles
    /\ reloaded = NotLoaded
    /\ lastProbe = NoProbe
    /\ mapper = NoMapper
    /\ rag_system = NoRagSystem
    /\ lastMap = NoMap
    /\ request = NoRequest
    /\ chunking = NoChunking
    /\ \E text \in Texts : extraction = [called |-> FALSE, text |-> text, capitalized |-> <<>>]
    /\ handlers = NoHandlers
    /\ serialized = NoSerialized

\* PhraseExtractor.extract_phrases(text): what its second pass appends
ExtractPhrases ==
    /\ phase = "build"
    /\ extraction' = [extraction EXCEPT
                         !.called = TRUE,
                         !.capitalized = CapitalizedTerms(SplitWords(extraction.text, <<>>, <<>>),
                                                          <<>>)]
    /\ phase' = "done"
    /\ UNCHANGED <<rule, wraps, config, allowed_keys, max_depth, max_size, outcome,
                   stack, lastCall, grammar, store_type, mem, fa, lastSearch,
                   storeCalls, application, chunking, handlers, serialized>>

NextExtract == ExtractPhrases

SpecExtract == InitExtract /\ [][NextExtract]_vars

\* the token has an alphabetic character, and the first one is uppercase
FirstLetterIsUpper(token) ==
    \E i \in 1..Len(token) :
        /\ IsUpper(token[i])
        /\ \A j \in 1..(i - 1) : ~IsLetter(token[j])

\* the stripped token is longer than 3 characters and its first alphabetic
\* character is uppercase
IsCapitalizedTerm(token) ==
    Len(CleanWord(token)) > 3 /\ FirstLetterIsUpper(CleanWord(token))

\* C24: the capitalized-term pass extracts, in the order of the text, the
\* stripped token of exactly the whitespace-separated tokens that, after the
\* non-word characters are stripped, are longer than 3 characters and have
\* an uppercase first alphabetic character.
C24_CapitalizedTermsExtracted ==
    extraction.called =>
        LET tokens == SplitWords(extraction.text, <<>>, <<>>)
            terms == SelectSeq(tokens, IsCapitalizedTerm)
        IN extraction.capitalized = [i \in 1..Len(terms) |-> CleanWord(terms[i])]

(***************************************************************************)
(* SpecConcurrent: the store is filled at startup; then request handlers   *)
(* search it concurrently. A handler makes the searches of one call: one   *)
(* search for a search call, one per phrase for a map_phrases call. A      *)
(* search reads the store twice: it ranks the stored vectors, and then it  *)
(* reads the ids of the ranked positions; the steps of other handlers come *)
(* in between.                                                             *)
(***************************************************************************)
\* how many handlers run at once
NumHandlers == 2

\* InMemoryVectorStore.search ranking in ascending order
RankInMemoryAscending(store, embedding, top_k, order) ==
    LET top_indices == FirstN(order, top_k)
    IN [r \in 1..Len(top_indices) |->
           [index |-> top_indices[r],
            score |-> cosine_similarity(embedding, store.embeddings[top_indices[r]])]]

\* InMemoryVectorStore.search up to top_indices: the positions and their
\* similarities; order is what np.argsort(similarities) returned
RankInMemory(store, embedding, top_k, order) ==
    LET top_indices == FirstN(Reverse(order), top_k)
    IN [r \in 1..Len(top_indices) |->
           [index |-> top_indices[r],
            score |-> cosine_similarity(embedding, store.embeddings[top_indices[r]])]]

\* FAISSVectorStore.search up to index.search: the labels and the
\* similarities of their distances
RankFaiss(store, embedding, top_k, order) ==
    LET indices == FirstN(order, Min(top_k, Len(store.index)))
    IN [r \in 1..Len(indices) |->
           [index |-> indices[r],
            score |-> HarmonicSimilarity(L2Distance(embedding, store.index[indices[r]]))]]

\* InMemoryVectorStore.search: the result list built from self.ids
CollectInMemory(store, ranked) ==
    [r \in 1..Len(ranked) |->
        Result(store.ids[ranked[r].index], ranked[r].score, ranked[r].index - 1)]

\* FAISSVectorStore.search: the loop over indices[0], which reads self.ids
CollectFaiss(store, ranked) ==
    LET kept == SelectSeq(ranked, LAMBDA entry :
                             entry.index - 1 >= 0 /\ entry.index - 1 < Len(store.ids))
    IN [r \in 1..Len(kept) |-> Result(store.ids[kept[r].index], kept[r].score,
                                      kept[r].index - 1)]

\* what create_app leaves in the store: the entries, by their ids
StartupIds ==
    { <<"user_age", "age">>, <<"user_age", "age", "purchase_amount">> }

EntryOf(id) == CHOOSE entry \in PairEntries : entry.id = id

\* a handler about to make its first search
NewHandler(queries, top_k) ==
    [queries |-> queries, top_k |-> top_k, at |-> 1, pc |-> "rank",
     ranked |-> <<>>, results |-> <<>>]

\* the calls the handlers make: a search for one or for two results, and a
\* map_phrases over two phrases, which searches once per phrase
HandlerCalls ==
    { NewHandler(<< <<1, 0>> >>, 1), NewHandler(<< <<1, 0>> >>, 2),
      NewHandler(<< <<1, 0>>, <<1, 1>> >>, 2) }

InitConcurrent ==
    /\ phase = "ready"
    /\ rule = PyNone
    /\ wraps = 0
    /\ config = NoConfig
    /\ allowed_keys = Vocabulary
    /\ max_depth = ConfigMaxDepth(config)
    /\ max_size = ConfigMaxSize(config)
    /\ outcome = NoCall
    /\ stack = <<>>
    /\ lastCall = NoBuilderCall
    /\ grammar = NoCall
    /\ store_type \in {"in-memory", "faiss"}
    /\ \E ids \in StartupIds :
          LET texts == [i \in 1..Len(ids) |-> EntryOf(ids[i]).text]
              embeddings == [i \in 1..Len(ids) |-> EntryOf(ids[i]).vec]
          IN /\ mem = IF store_type = "in-memory"
                      THEN InMemoryAddTexts(EmptyMem, texts, embeddings, ids).store
                      ELSE EmptyMem
             /\ fa = IF store_type = "faiss"
                     THEN FaissAddTexts(NewFaiss(2), texts, embeddings, ids).store
                     ELSE NewFaiss(2)
    /\ lastSearch = NoSearch
    /\ lastAdd = NoAdd
    /\ disk = NoFiles
    /\ reloaded = NotLoaded
    /\ lastProbe = NoProbe
    /\ mapper = NoMapper
    /\ rag_system = NoRagSystem
    /\ lastMap = NoMap
    /\ request = NoRequest
    /\ chunking = NoChunking
    /\ extraction = NoExtraction
    /\ serialized = NoSerialized
    /\ handlers \in [1..NumHandlers -> HandlerCalls]

\* handler h ranks the stored vectors for its current query
Rank(h) ==
    LET handler == handlers[h]
        embedding == handler.queries[handler.at]
    IN /\ handler.pc = "rank"
       /\ \E ranked \in
             IF store_type = "faiss"
             THEN {RankFaiss(fa, embedding, handler.top_k, order) :
                     order \in NearestOrders([i \in 1..Len(fa.index) |->
                                                L2Distance(embedding, fa.index[i])])}
             ELSE {RankInMemory(mem, embedding, handler.top_k, order) :
                     order \in ArgSorts([i \in 1..Len(mem.embeddings) |->
                                           cosine_similarity(embedding, mem.embeddings[i])])} :
             handlers' = [handlers EXCEPT ![h].pc = "collect", ![h].ranked = ranked]
       /\ UNCHANGED <<phase, rule, wraps, config, allowed_keys, max_depth, max_size, outcome,
                      stack, lastCall, grammar, store_type, mem, fa, lastSearch,
                      storeCalls, application, chunking, extraction, serialized>>

\* handler h builds the results of its current search from the ids, and
\* goes on to its next query or returns
Collect(h) ==
    LET handler == handlers[h]
        results == IF store_type = "faiss" THEN CollectFaiss(fa, handler.ranked)
                   ELSE CollectInMemory(mem, handler.ranked)
    IN /\ handler.pc = "collect"
       /\ handlers' = [handlers EXCEPT
                          ![h].results = Append(handler.results, results),
                          ![h].ranked = <<>>,
                          ![h].at = handler.at + 1,
                          ![h].pc = IF handler.at < Len(handler.queries)
                                    THEN "rank" ELSE "done"]
       /\ UNCHANGED <<phase, rule, wraps, config, allowed_keys, max_depth, max_size, outcome,
                      stack, lastCall, grammar, store_type, mem, fa, lastSearch,
                      storeCalls, application, chunking, extraction, serialized>>

NextConcurrent ==
    \/ \E h \in 1..NumHandlers : Rank(h)
    \/ \E h \in 1..NumHandlers : Collect(h)

SpecConcurrent == InitConcurrent /\ [][NextConcurrent]_vars

NestingKeys == {"and", ">", "unknown_op"}

NextUnknownKey ==
    \/ \E key \in NestingKeys : WrapList(key)
    \/ \E key \in NestingKeys : WrapValue(key)
    \/ ValidateComplete

SpecUnknownKey == InitDepth /\ [][NextUnknownKey]_vars

RECURSIVE NestingThroughUnknown(_)
\* how deep a tree nests through recognized operator keys and through keys
\* that are neither var nor an allowed operator
NestingThroughUnknown(value) ==
    IF value.t # "dict" THEN 0
    ELSE LET below == UNION {
                 IF value.kids[i].k \in LOGICAL_KEYS
                    \/ (value.kids[i].k \in COMPARISON_KEYS /\ value.kids[i].val.t = "list")
                    \/ value.kids[i].k \notin GrammarOperators \cup {"var"}
                 THEN {1 + NestingThroughUnknown(ItemsOf(value.kids[i].val)[j]) :
                          j \in 1..Len(ItemsOf(value.kids[i].val))}
                 ELSE {} : i \in 1..Len(value.kids)}
         IN IF below = {} THEN 0 ELSE CHOOSE m \in below : \A x \in below : x <= m

\* a tree that nests deeper than max_depth only beneath an unknown operator
\* key, and has no other defect
TooDeepOnlyBeneathUnknownKey ==
    /\ IsTree(rule)
    /\ NestingThroughUnknown(rule) > max_depth
    /\ Nesting(rule) <= max_depth
    /\ BadVarCount(rule, allowed_keys) = 0
    /\ DumpsLen(rule) <= max_size

\* C26: the depth check does not descend into the value of an unknown
\* operator key: a tree that is too deep only beneath such a key gets no
\* Depth violation, the operator check reports the unknown key, and the tree
\* is rejected with Operator violations only.
C26_UnknownKeyHidesDepth ==
    phase = "done" /\ TooDeepOnlyBeneathUnknownKey =>
        /\ ~outcome.raised
        /\ ~outcome.ok
        /\ OfKind(outcome.errors, "Depth") = <<>>
        /\ BadKeys(rule) # {}
        /\ \A key \in BadKeys(rule) : Len(Naming(outcome.errors, "Operator", key)) > 0
        /\ OfKind(outcome.errors, "Operator") = outcome.errors

\* C26 witness: {"unknown_op": [{"and": [{"var": "user_age"}]}]} under
\* max_depth 1 is rejected with the one Operator violation
C26_Witness ==
    /\ phase = "done"
    /\ max_depth = 1
    /\ rule = PyDict(<<<<"unknown_op",
                         PyList(<<PyDict(<<<<"and", PyList(<<Var("user_age")>>)>>>>)>>)>>>>)
    /\ TooDeepOnlyBeneathUnknownKey
    /\ outcome = Returned(<<Violation("Operator", "unknown_op")>>)

(***************************************************************************)
(* Further claims about the builder, under SpecBuilder                     *)
(***************************************************************************)
\* C27: build_if returns the 3-operand node {"if": [condition, then, else]}
\* for every else-branch it is given, whatever its value ({} and 0
\* included), and the 2-operand node {"if": [condition, then]} only when no
\* else-branch is given (else_rule is None).
C27_BuildIfKeepsEveryElseBranch ==
    lastCall.fn = "build_if" =>
        /\ ~lastCall.raised
        /\ lastCall.result.t = "dict"
        /\ Keys(lastCall.result) = {"if"}
        /\ ItemsOf(Get(lastCall.result, "if"))
              = IF lastCall.args[3] # PyNone
                THEN <<lastCall.args[1], lastCall.args[2], lastCall.args[3]>>
                ELSE <<lastCall.args[1], lastCall.args[2]>>

(***************************************************************************)
(* Further claims about generate_rule, under SpecApp                       *)
(***************************************************************************)
\* C28: generate_rule never answers 200 with a rule that validate_complete
\* rejected: the rule of every 200 response passed validate_complete.
C28_NoSuccessWithRejectedRule ==
    request.called /\ request.status_code = 200 =>
        /\ request.validation = validate_complete(request.json_logic, allowed_keys,
                                                  max_depth, max_size)
        /\ request.validation.ok

(***************************************************************************)
(* SpecSerialized: a var node wrapped into dicts as in SpecUnknownKey; the *)
(* rule is validated as a tree, and its json.dumps text is validated as    *)
(* the string a caller holds.                                              *)
(***************************************************************************)
\* validator.validate_complete(rule) and
\* validator.validate_complete(json.dumps(rule))
ValidateSerialized ==
    /\ phase = "build"
    /\ outcome' = validate_complete(rule, allowed_keys, max_depth, max_size)
    /\ serialized' = [called |-> TRUE, text |-> json_dumps(rule),
                      outcome |-> validate_complete(PyText(json_dumps(rule)), allowed_keys,
                                                    max_depth, max_size)]
    /\ phase' = "done"
    /\ UNCHANGED <<rule, wraps, config, allowed_keys, max_depth, max_size,
                   stack, lastCall, grammar, store_type, mem, fa, lastSearch,
                   storeCalls, application, chunking, extraction, handlers>>

NextSerialized ==
    \/ \E key \in NestingKeys : WrapList(key)
    \/ \E key \in NestingKeys : WrapValue(key)
    \/ ValidateSerialized

SpecSerialized == InitDepth /\ [][NextSerialized]_vars

\* C29: validate_complete answers ok = true for the serialized string of a
\* tree only if it answers ok = true for the tree itself.
C29_SerializedOkOnlyIfTreeOk ==
    serialized.called /\ json_loads(serialized.text) /\ serialized.outcome.ok
        => outcome.ok

(***************************************************************************)
(* SpecReload: one index that is added to, saved, and loaded into while it *)
(* holds entries.                                                          *)
(***************************************************************************)
\* how many ids the index holds at most
MaxStored == 3

\* the entries inserted: no tab and no newline in an id or a text
ReloadEntries ==
    { [id |-> <<"a">>, text |-> <<"x">>, vec |-> <<1, 0>>],
      [id |-> <<"b">>, text |-> <<"y">>, vec |-> <<0, 1>>] }

ReloadBatches == UNION {[1..n -> ReloadEntries] : n \in 1..2}

\* ids = [str(i) for i in range(len(texts))], character by character
DefaultIdTexts(n) == [i \in 1..n |-> DecimalChars(i - 1)]

\* InMemoryVectorStore.load(path) on a store that may hold entries: the
\* array is replaced when embeddings.npy exists, the ids and texts of
\* metadata.txt are appended
InMemoryLoad(store, files) ==
    IF ~files.saved THEN store
    ELSE LET read == ReadMetadata(LinesOf(files.metadata), store.ids, store.texts)
         IN [embeddings |-> files.vectors, texts |-> read.texts, ids |-> read.ids]

\* FAISSVectorStore.load(path) on a store that may hold entries
FaissLoad(store, files) ==
    IF ~files.saved THEN store
    ELSE LET read == ReadMetadata(LinesOf(files.metadata), store.ids, store.texts)
         IN [store EXCEPT !.index = files.vectors, !.texts = read.texts, !.ids = read.ids]

\* store.add_texts(texts, embeddings, ids), or without ids
AddBatch(batch, withIds) ==
    LET texts == [i \in 1..Len(batch) |-> batch[i].text]
        embeddings == [i \in 1..Len(batch) |-> batch[i].vec]
        ids == IF withIds THEN [i \in 1..Len(batch) |-> batch[i].id]
               ELSE DefaultIdTexts(Len(texts))
        added == IF store_type = "faiss" THEN FaissAddTexts(fa, texts, embeddings, ids)
                 ELSE InMemoryAddTexts(mem, texts, embeddings, ids)
    IN /\ phase = "build"
       /\ Len(StoredIds) + Len(batch) <= MaxStored
       /\ IF store_type = "faiss"
          THEN /\ fa' = added.store
               /\ mem' = mem
          ELSE /\ mem' = added.store
               /\ fa' = fa
       /\ lastAdd' = [called |-> TRUE, raised |-> added.raised,
                      rows |-> RowLength(embeddings)]
       /\ UNCHANGED <<phase, rule, wraps, config, allowed_keys, max_depth, max_size,
                      outcome, stack, lastCall, grammar, store_type, lastSearch,
                      disk, reloaded, lastProbe, application, textCalls>>

\* store.save(path), the store staying in use
SaveStore ==
    /\ phase = "build"
    /\ disk' = SaveFiles(StoredVectors, StoredIds, StoredTexts)
    /\ UNCHANGED <<phase, rule, wraps, config, allowed_keys, max_depth, max_size, outcome,
                   stack, lastCall, grammar, store_type, mem, fa, lastSearch,
                   lastAdd, reloaded, lastProbe, application, textCalls>>

\* store.load(path) on the store in use
LoadStore ==
    /\ phase = "build"
    /\ disk.saved
    /\ Len(StoredIds) + Len(LinesOf(disk.metadata)) <= MaxStored
    /\ IF store_type = "faiss"
       THEN /\ fa' = FaissLoad(fa, disk)
            /\ mem' = mem
       ELSE /\ mem' = InMemoryLoad(mem, disk)
            /\ fa' = fa
    /\ lastAdd' = NoAdd
    /\ UNCHANGED <<phase, rule, wraps, config, allowed_keys, max_depth, max_size, outcome,
                   stack, lastCall, grammar, store_type, lastSearch,
                   disk, reloaded, lastProbe, application, textCalls>>

NextReload ==
    \/ \E batch \in ReloadBatches, withIds \in BOOLEAN : AddBatch(batch, withIds)
    \/ SaveStore
    \/ LoadStore

SpecReload == InitPersist /\ [][NextReload]_vars

\* C30: after any sequence of add_texts and load calls on one index (default
\* ids and a load into an index that holds entries included) the index holds
\* as many ids as texts as vectors, and position i of the three refers to
\* one entry: the id, the text and the vector that were inserted together.
C30_IndexStaysAligned ==
    /\ Len(StoredIds) = Len(StoredTexts)
    /\ Len(StoredTexts) = Len(StoredVectors)
    /\ \A i \in 1..Len(StoredIds) :
          \E entry \in ReloadEntries :
              /\ StoredTexts[i] = entry.text
              /\ StoredVectors[i] = entry.vec
              /\ StoredIds[i] \in {entry.id} \cup Range(DefaultIdTexts(2))

====
